---- MODULE Spec2Model ----
(***************************************************************************)
(* Sv48 page tables of the RISC-V back-end: descriptors, the map_range     *)
(* engine, the region walker and the process address space built on them.  *)
(* Addresses are byte addresses; a table page is an array of descriptors;  *)
(* a descriptor is the u64 split into its (disjoint) bit fields.           *)
(***************************************************************************)
EXTENDS Integers, Sequences, FiniteSets, TLC

\* ------------------------------------------------------------------------
\* Geometry.  The hardware values are PAGE_SHIFT = 12 and 9 index bits per
\* level; the model keeps the same four-level layout with narrower fields.
\* ------------------------------------------------------------------------
PAGE_SHIFT == 1
LEVEL_BITS == 1
\* Table pages the allocator can hand out before it answers NoMemory
\* (the root included).
STATIC_PAGE_COUNT == 4
\* Pages of the lower half that calls may name.
MaxPages == 4
\* map_range calls per behaviour of the engine, and address-space calls per
\* behaviour of a process address space.
MaxOps == 2
MaxCalls == 3
\* Pages the frame allocator behind PageTableAllocator can hand out, and
\* calls per behaviour on the process address spaces that share it.
PoolPages == 13
MaxSpaceCalls == 2
\* map_range calls per behaviour when the invalidator is followed
MaxTlbCalls == 2
\* map_normal and map_mmio calls per behaviour of the kernel address space
MaxKernCalls == 3
\* tasks, and thread groups, per behaviour of sys_clone
MaxTasks == 3
\* map_page calls per behaviour of sys_clone
MaxCloneCalls == 1
\* calls of map_at_level and try_map_pa per behaviour, taken one at a time
MaxLinkCalls == 4

PAGE_SIZE == 2 ^ PAGE_SHIFT
PAGE_MASK == PAGE_SIZE - 1
DESCRIPTORS_PER_PAGE == 2 ^ LEVEL_BITS
LEVEL_MASK == DESCRIPTORS_PER_PAGE - 1

Levels == 0 .. 3
\* impl_pgtable!(L0Table, 39, ..) .. impl_pgtable!(L3Table, 12, ..)
SHIFT(level) == PAGE_SHIFT + (3 - level) * LEVEL_BITS
\* PgTable::pg_index
pg_index(level, va) == (va \div (2 ^ SHIFT(level))) % DESCRIPTORS_PER_PAGE

\* ------------------------------------------------------------------------
\* PtePermissions (read, write, execute, user, cow)
\* ------------------------------------------------------------------------
PtePermissions == [read : BOOLEAN, write : BOOLEAN, execute : BOOLEAN,
                   user : BOOLEAN, cow : BOOLEAN]
from_raw_bits(r, w, x, u, c) ==
    [read |-> r, write |-> w, execute |-> x, user |-> u, cow |-> c]
PermNone == from_raw_bits(FALSE, FALSE, FALSE, TRUE, FALSE)
PermRO   == from_raw_bits(TRUE, FALSE, FALSE, TRUE, FALSE)
PermRW   == from_raw_bits(TRUE, TRUE, FALSE, TRUE, FALSE)
PermXO   == from_raw_bits(FALSE, FALSE, TRUE, TRUE, FALSE)
PermInputs == {PermNone, PermRO, PermRW}
IsEmptyPerms(p) == ~p.read /\ ~p.write /\ ~p.execute

\* ------------------------------------------------------------------------
\* Descriptors: register_bitfields! CommonFields plus SWAPPED_MASK (bit 63)
\* ------------------------------------------------------------------------
MemoryTypes == {"Device", "Normal"}
PBMT_None == "None"
PBMT_IO == "IO"

\* PageTableEntry::invalid: the all-zero word
invalid ==
    [valid |-> FALSE, read |-> FALSE, write |-> FALSE, execute |-> FALSE,
     user |-> FALSE, global |-> FALSE, accessed |-> FALSE, dirty |-> FALSE,
     cow |-> FALSE, ppn |-> 0, pbmt |-> PBMT_None, swapped |-> FALSE]

is_valid(d) == d.valid

\* TableMapper::next_table_address: Some(pa) iff V=1 and R=W=X=0
IsTableDesc(d) == d.valid /\ ~d.read /\ ~d.write /\ ~d.execute
next_table_address(d) == d.ppn * PAGE_SIZE

\* TableMapper::new_next_table
new_next_table(pa) ==
    [invalid EXCEPT !.valid = TRUE, !.ppn = pa \div PAGE_SIZE]

\* permissions(): None unless V and (R or X); read is reported as true
HasPermissions(d) == d.valid /\ (d.read \/ d.execute)
permissions(d) == from_raw_bits(TRUE, d.write, d.execute, d.user, d.cow)

\* set_permissions: USER, WRITE, EXECUTE, COW follow perms; READ is always set
set_permissions(d, perms) ==
    [d EXCEPT !.user = perms.user, !.read = TRUE, !.write = perms.write,
              !.execute = perms.execute, !.cow = perms.cow]

\* PaMapper::could_map for the descriptor type of `level`
is_aligned(level, addr) == addr % (2 ^ SHIFT(level)) = 0

could_map_StrictSize(level, physStart, physSize, va) ==
    /\ is_aligned(level, physStart)
    /\ is_aligned(level, va)
    /\ physSize > 2 ^ SHIFT(level)

could_map_NoSize(level, physStart, physSize, va) ==
    /\ is_aligned(level, physStart)
    /\ is_aligned(level, va)

could_map(level, physStart, physSize, va) ==
    /\ is_aligned(level, physStart)
    /\ is_aligned(level, va)
    /\ physSize >= 2 ^ SHIFT(level)

\* PaMapper::new_map_pa (the caller has checked the alignment)
new_map_pa(pa, memory_type, perms) ==
    set_permissions(
        [invalid EXCEPT !.ppn = pa \div PAGE_SIZE, !.valid = TRUE,
                        !.accessed = TRUE, !.dirty = TRUE,
                        !.pbmt = IF memory_type = "Device" THEN PBMT_IO
                                 ELSE PBMT_None],
        perms)

\* PaMapper::mapped_address: Some(ppn << PAGE_SHIFT) iff V and (R or X)
HasMappedAddress(d) == d.valid /\ (d.read \/ d.execute)
mapped_address(d) == d.ppn * PAGE_SIZE

\* L3Descriptor::state
state(d) ==
    IF is_valid(d) THEN "Valid"
    ELSE IF d.swapped THEN "Swapped"
    ELSE "Invalid"

mark_as_swapped_NoMask(d) == [d EXCEPT !.valid = FALSE]

\* L3Descriptor::mark_as_swapped
mark_as_swapped(d) == [d EXCEPT !.valid = FALSE, !.swapped = TRUE]


\* Table pages the allocator of the running configuration can hand out
\* before it is exhausted (fixed when the system starts).
VARIABLE capacity

\* ------------------------------------------------------------------------
\* Table memory.  Table page number t lives at physical address
\* t * PAGE_SIZE; the root is the first page the allocator handed out.
\* ------------------------------------------------------------------------
TableIds == 0 .. (STATIC_PAGE_COUNT - 1)
Indices == 0 .. (DESCRIPTORS_PER_PAGE - 1)
\* PgTableArray::new: [0; DESCRIPTORS_PER_PAGE]
PgTableArray_new == [i \in Indices |-> invalid]
RootPa == 0
TableOf(pa) == pa \div PAGE_SIZE

\* PgTable::get_desc / PgTable::set_desc (the invalidator is not used)
get_desc(mem, tablePa, level, va) == mem[TableOf(tablePa)][pg_index(level, va)]
set_desc(mem, tablePa, level, va, desc) ==
    [mem EXCEPT ![TableOf(tablePa)][pg_index(level, va)] = desc]

allocate_page_table_Reuse(mem, allocated) ==
    [pa |-> (IF allocated > 1 THEN allocated - 1 ELSE allocated) * PAGE_SIZE,
     mem |-> [mem EXCEPT ![allocated] = PgTableArray_new],
     allocated |-> allocated + 1]

\* StaticPageAllocator::allocate_page_table: bump allocation of zeroed pages
CanAllocate(allocated) == allocated < capacity
allocate_page_table(mem, allocated) ==
    [pa |-> allocated * PAGE_SIZE,
     mem |-> [mem EXCEPT ![allocated] = PgTableArray_new],
     allocated |-> allocated + 1]

write_bytes_Skip(mem, pa) == mem

\* core::ptr::write_bytes(new_pgtable, 0, PAGE_SIZE): every entry of the
\* page becomes the all-zero word
write_bytes(mem, pa) == [mem EXCEPT ![TableOf(pa)] = PgTableArray_new]

map_at_level_ClearOnFail(mem, allocated, tablePa, level, va) ==
    LET desc == get_desc(mem, tablePa, level, va) IN
    IF IsTableDesc(desc)
    THEN [err |-> "Ok", mem |-> mem, allocated |-> allocated,
          next |-> next_table_address(desc)]
    ELSE IF is_valid(desc)
    THEN [err |-> "AlreadyMapped", mem |-> mem, allocated |-> allocated,
          next |-> 0]
    ELSE IF ~CanAllocate(allocated)
    THEN [err |-> "NoMemory",
          mem |-> [mem EXCEPT ![TableOf(tablePa)] = PgTableArray_new],
          allocated |-> allocated, next |-> 0]
    ELSE LET a == allocate_page_table(mem, allocated) IN
         [err |-> "Ok",
          mem |-> set_desc(a.mem, tablePa, level, va, new_next_table(a.pa)),
          allocated |-> a.allocated,
          next |-> a.pa]

map_at_level_ReplaceLeaf(mem, allocated, tablePa, level, va) ==
    LET desc == get_desc(mem, tablePa, level, va) IN
    IF IsTableDesc(desc)
    THEN [err |-> "Ok", mem |-> mem, allocated |-> allocated,
          next |-> next_table_address(desc)]
    ELSE IF ~CanAllocate(allocated)
    THEN [err |-> "NoMemory", mem |-> mem, allocated |-> allocated, next |-> 0]
    ELSE LET a == allocate_page_table(mem, allocated) IN
         [err |-> "Ok",
          mem |-> set_desc(a.mem, tablePa, level, va, new_next_table(a.pa)),
          allocated |-> a.allocated,
          next |-> a.pa]

\* map_at_level: the next-level table for va, allocated and linked on demand
map_at_level(mem, allocated, tablePa, level, va) ==
    LET desc == get_desc(mem, tablePa, level, va) IN
    IF IsTableDesc(desc)
    THEN [err |-> "Ok", mem |-> mem, allocated |-> allocated,
          next |-> next_table_address(desc)]
    ELSE IF is_valid(desc)
    THEN [err |-> "AlreadyMapped", mem |-> mem, allocated |-> allocated,
          next |-> 0]
    ELSE IF ~CanAllocate(allocated)
    THEN [err |-> "NoMemory", mem |-> mem, allocated |-> allocated, next |-> 0]
    ELSE LET a == allocate_page_table(mem, allocated) IN
         [err |-> "Ok",
          mem |-> set_desc(write_bytes(a.mem, a.pa), tablePa, level, va,
                           new_next_table(a.pa)),
          allocated |-> a.allocated,
          next |-> a.pa]

try_map_pa_Overwrite(mem, tablePa, level, va, physStart, physSize, attrs) ==
    IF could_map(level, physStart, physSize, va)
    THEN [err |-> "Ok", some |-> TRUE,
          mem |-> set_desc(mem, tablePa, level, va,
                           new_map_pa(physStart, attrs.mem_type, attrs.perms)),
          pages |-> 2 ^ (SHIFT(level) - PAGE_SHIFT)]
    ELSE [err |-> "Ok", some |-> FALSE, mem |-> mem, pages |-> 0]

try_map_pa_ZeroPages(mem, tablePa, level, va, physStart, physSize, attrs) ==
    IF could_map(level, physStart, physSize, va)
    THEN IF is_valid(get_desc(mem, tablePa, level, va))
         THEN [err |-> "AlreadyMapped", some |-> FALSE, mem |-> mem, pages |-> 0]
         ELSE [err |-> "Ok", some |-> TRUE,
               mem |-> set_desc(mem, tablePa, level, va,
                                new_map_pa(physStart, attrs.mem_type, attrs.perms)),
               pages |-> 0]
    ELSE [err |-> "Ok", some |-> FALSE, mem |-> mem, pages |-> 0]

\* try_map_pa: install a leaf at `level` when could_map allows it
try_map_pa(mem, tablePa, level, va, physStart, physSize, attrs) ==
    IF could_map(level, physStart, physSize, va)
    THEN IF is_valid(get_desc(mem, tablePa, level, va))
         THEN [err |-> "AlreadyMapped", some |-> FALSE, mem |-> mem, pages |-> 0]
         ELSE [err |-> "Ok", some |-> TRUE,
               mem |-> set_desc(mem, tablePa, level, va,
                                new_map_pa(physStart, attrs.mem_type, attrs.perms)),
               pages |-> 2 ^ (SHIFT(level) - PAGE_SHIFT)]
    ELSE [err |-> "Ok", some |-> FALSE, mem |-> mem, pages |-> 0]

\* VirtMemoryRegion / PhysMemoryRegion::is_page_aligned
region_is_page_aligned(start, size) ==
    start % PAGE_SIZE = 0 /\ size % PAGE_SIZE = 0

\* Outcome of a map_range call: the error (or "Ok"), the tables and the
\* allocator afterwards, the pages covered before it returned, and the
\* leaves it installed, in order.
MapOutcome(err, mem, allocated, pages, leaves) ==
    [err |-> err, mem |-> mem, allocated |-> allocated, pages |-> pages,
     leaves |-> leaves]
Leaf(level, va, pa) == [level |-> level, va |-> va, pa |-> pa]

\* One turn of the while loop of map_range, then the rest of the loop.  Each
\* intermediate result (l1, m1, l2, m2, l3, m3) is the element of a
\* one-element set, so that it is computed once.
RECURSIVE map_range_loop(_, _, _, _, _, _, _, _, _)
map_range_loop(root, mem, allocated, va, pa, size, attrs, pages, leaves) ==
    IF size = 0 THEN MapOutcome("Ok", mem, allocated, pages, leaves)
    ELSE
    CHOOSE o1 \in {
    IF l1.err # "Ok" THEN MapOutcome(l1.err, l1.mem, l1.allocated, pages, leaves)
    ELSE
    CHOOSE o2 \in {
    IF m1.err # "Ok" THEN MapOutcome(m1.err, m1.mem, l1.allocated, pages, leaves)
    ELSE IF m1.some
    THEN map_range_loop(root, m1.mem, l1.allocated,
                        va + m1.pages * PAGE_SIZE, pa + m1.pages * PAGE_SIZE,
                        size - m1.pages * PAGE_SIZE, attrs,
                        pages + m1.pages, Append(leaves, Leaf(1, va, pa)))
    ELSE
    CHOOSE o3 \in {
    IF l2.err # "Ok" THEN MapOutcome(l2.err, l2.mem, l2.allocated, pages, leaves)
    ELSE
    CHOOSE o4 \in {
    IF m2.err # "Ok" THEN MapOutcome(m2.err, m2.mem, l2.allocated, pages, leaves)
    ELSE IF m2.some
    THEN map_range_loop(root, m2.mem, l2.allocated,
                        va + m2.pages * PAGE_SIZE, pa + m2.pages * PAGE_SIZE,
                        size - m2.pages * PAGE_SIZE, attrs,
                        pages + m2.pages, Append(leaves, Leaf(2, va, pa)))
    ELSE
    CHOOSE o5 \in {
    IF l3.err # "Ok" THEN MapOutcome(l3.err, l3.mem, l3.allocated, pages, leaves)
    ELSE
    CHOOSE o6 \in {
    IF m3.err # "Ok" THEN MapOutcome(m3.err, m3.mem, l3.allocated, pages, leaves)
    ELSE map_range_loop(root, m3.mem, l3.allocated,
                        va + PAGE_SIZE, pa + PAGE_SIZE, size - PAGE_SIZE, attrs,
                        pages + 1,
                        IF m3.some THEN Append(leaves, Leaf(3, va, pa))
                        ELSE leaves)
    : m3 \in {try_map_pa(l3.mem, l3.next, 3, va, pa, size, attrs)}} : TRUE
    : l3 \in {map_at_level(l2.mem, l2.allocated, l2.next, 2, va)}} : TRUE
    : m2 \in {try_map_pa(l2.mem, l2.next, 2, va, pa, size, attrs)}} : TRUE
    : l2 \in {map_at_level(l1.mem, l1.allocated, l1.next, 1, va)}} : TRUE
    : m1 \in {try_map_pa(l1.mem, l1.next, 1, va, pa, size, attrs)}} : TRUE
    : l1 \in {map_at_level(mem, allocated, root, 0, va)}} : TRUE

map_range_NoVirtCheck(root, mem, allocated, attrs) ==
    IF attrs.phys.size # attrs.virt.size
    THEN MapOutcome("SizeMismatch", mem, allocated, 0, <<>>)
    ELSE IF attrs.phys.size < PAGE_SIZE
    THEN MapOutcome("TooSmall", mem, allocated, 0, <<>>)
    ELSE IF ~region_is_page_aligned(attrs.phys.start, attrs.phys.size)
    THEN MapOutcome("PhysNotAligned", mem, allocated, 0, <<>>)
    ELSE map_range_loop(root, mem, allocated, attrs.virt.start, attrs.phys.start,
                        attrs.virt.size, attrs, 0, <<>>)

\* map_range: the four precondition tests, then the loop
map_range(root, mem, allocated, attrs) ==
    IF attrs.phys.size # attrs.virt.size
    THEN MapOutcome("SizeMismatch", mem, allocated, 0, <<>>)
    ELSE IF attrs.phys.size < PAGE_SIZE
    THEN MapOutcome("TooSmall", mem, allocated, 0, <<>>)
    ELSE IF ~region_is_page_aligned(attrs.phys.start, attrs.phys.size)
    THEN MapOutcome("PhysNotAligned", mem, allocated, 0, <<>>)
    ELSE IF ~region_is_page_aligned(attrs.virt.start, attrs.virt.size)
    THEN MapOutcome("VirtNotAligned", mem, allocated, 0, <<>>)
    ELSE map_range_loop(root, mem, allocated, attrs.virt.start, attrs.phys.start,
                        attrs.virt.size, attrs, 0, <<>>)

MapAttributes(pstart, psize, vstart, vsize, mem_type, perms) ==
    [phys |-> [start |-> pstart, size |-> psize],
     virt |-> [start |-> vstart, size |-> vsize],
     mem_type |-> mem_type, perms |-> perms]


\* ------------------------------------------------------------------------
\* Region walker: walk_and_modify_region visits, in address order, every
\* valid leaf-level descriptor of a page-aligned region and writes back the
\* modifier's result.  An Invalid entry above the leaf level ends that
\* branch; a valid non-table entry there is NotL3Mapped.
\* ------------------------------------------------------------------------
protect_range_modifier_Rebuild(perms, desc) ==
    IF ~perms.execute /\ ~perms.read /\ ~perms.write
    THEN mark_as_swapped(desc)
    ELSE new_map_pa(0, "Normal", perms)

\* The closure of protect_range
protect_range_modifier(perms, desc) ==
    IF ~perms.execute /\ ~perms.read /\ ~perms.write
    THEN mark_as_swapped(desc)
    ELSE set_permissions(desc, perms)

\* The closure of unmap_range (the frame is pushed by the caller's side)
unmap_range_modifier(desc) == invalid

\* The closure of remap (old_pte is the descriptor it was called with)
remap_modifier(arg, desc) == new_map_pa(arg.pa, "Normal", arg.perms)

Modifier(kind, arg, desc) ==
    CASE kind = "protect" -> protect_range_modifier(arg, desc)
      [] kind = "unmap" -> unmap_range_modifier(desc)
      [] kind = "remap" -> remap_modifier(arg, desc)
      [] OTHER -> desc

\* Descent from the root to the L3 table that covers va
RECURSIVE Descend(_, _, _, _)
Descend(mem, tablePa, level, va) ==
    IF level = 3 THEN [kind |-> "table", pa |-> tablePa]
    ELSE LET desc == get_desc(mem, tablePa, level, va) IN
         IF IsTableDesc(desc)
         THEN Descend(mem, next_table_address(desc), level + 1, va)
         ELSE IF is_valid(desc) THEN [kind |-> "stray", pa |-> 0]
         ELSE [kind |-> "hole", pa |-> 0]

Visit(va, desc) == [va |-> va, desc |-> desc]

RECURSIVE WalkPages(_, _, _, _, _, _, _)
WalkPages(root, mem, va, endVa, kind, arg, visited) ==
    IF va >= endVa THEN [err |-> "Ok", mem |-> mem, visited |-> visited]
    ELSE LET t == Descend(mem, root, 0, va) IN
         IF t.kind = "stray"
         THEN [err |-> "NotL3Mapped", mem |-> mem, visited |-> visited]
         ELSE IF t.kind = "hole"
         THEN WalkPages(root, mem, va + PAGE_SIZE, endVa, kind, arg, visited)
         ELSE LET desc == get_desc(mem, t.pa, 3, va) IN
              IF is_valid(desc)
              THEN WalkPages(root, set_desc(mem, t.pa, 3, va, Modifier(kind, arg, desc)),
                             va + PAGE_SIZE, endVa, kind, arg,
                             Append(visited, Visit(va, desc)))
              ELSE WalkPages(root, mem, va + PAGE_SIZE, endVa, kind, arg, visited)

walk_and_modify_region(root, mem, start, size, kind, arg) ==
    IF size = 0 THEN [err |-> "Ok", mem |-> mem, visited |-> <<>>]
    ELSE WalkPages(root, mem, start, start + size, kind, arg, <<>>)

\* get_pte: the leaf descriptor of one page, read through the walker
get_pte(root, mem, va) ==
    walk_and_modify_region(root, mem, va, PAGE_SIZE, "probe", PermNone)

\* PA::to_pfn
to_pfn(pa) == pa \div PAGE_SIZE
page_aligned(va) == va - (va % PAGE_SIZE)

\* ------------------------------------------------------------------------
\* RiscvProcessAddressSpace
\* ------------------------------------------------------------------------
NoInfo == [kind |-> "None", pfn |-> 0, perms |-> PermNone]
\* translate: get_pte(..).unwrap()?, then mapped_address()? and permissions()?
translate(root, mem, va) ==
    LET r == get_pte(root, mem, page_aligned(va)) IN
    IF r.err # "Ok" THEN [kind |-> "Panic", pfn |-> 0, perms |-> PermNone]
    ELSE IF r.visited = <<>> THEN NoInfo
    ELSE LET pte == r.visited[1].desc IN
         IF ~HasMappedAddress(pte) THEN NoInfo
         ELSE IF ~HasPermissions(pte) THEN NoInfo
         ELSE [kind |-> "Some", pfn |-> to_pfn(mapped_address(pte)),
               perms |-> permissions(pte)]

\* map_page: map_range of one Normal page
map_page(root, mem, allocated, pfn, va, perms) ==
    map_range(root, mem, allocated,
              MapAttributes(pfn * PAGE_SIZE, PAGE_SIZE, va, PAGE_SIZE,
                            "Normal", perms))

\* protect_range
protect_range(root, mem, start, size, perms) ==
    walk_and_modify_region(root, mem, start, size, "protect", perms)

RECURSIVE ClaimedPages(_)
ClaimedPages(visited) ==
    IF visited = <<>> THEN <<>>
    ELSE LET d == Head(visited).desc IN
         (IF HasMappedAddress(d) THEN <<to_pfn(mapped_address(d))>> ELSE <<>>)
         \o ClaimedPages(Tail(visited))

unmap_range_KeepFirst(root, mem, start, size) ==
    LET w == walk_and_modify_region(root, mem, start + PAGE_SIZE, size - PAGE_SIZE,
                                    "unmap", PermNone) IN
    [err |-> w.err, mem |-> w.mem, frames |-> ClaimedPages(w.visited),
     visited |-> w.visited]

unmap_range_ErrWhenEmpty(root, mem, start, size) ==
    LET w == walk_and_modify_region(root, mem, start, size, "unmap", PermNone) IN
    [err |-> IF ClaimedPages(w.visited) = <<>> THEN "NotL3Mapped" ELSE w.err,
     mem |-> w.mem, frames |-> ClaimedPages(w.visited), visited |-> w.visited]

unmap_range_Beyond(root, mem, start, size) ==
    LET w == walk_and_modify_region(root, mem, start,
                 IF size = 0 THEN 0 ELSE size + PAGE_SIZE, "unmap", PermNone) IN
    [err |-> w.err, mem |-> w.mem, frames |-> ClaimedPages(w.visited),
     visited |-> w.visited]

\* unmap_range that swallows the walker's error
unmap_range_OkOnStray(root, mem, start, size) ==
    LET w == walk_and_modify_region(root, mem, start, size, "unmap", PermNone) IN
    [err |-> "Ok", mem |-> w.mem, frames |-> ClaimedPages(w.visited),
     visited |-> w.visited]

\* unmap_range: Ok(claimed_pages) or the walker's error
unmap_range(root, mem, start, size) ==
    LET w == walk_and_modify_region(root, mem, start, size, "unmap", PermNone) IN
    [err |-> w.err, mem |-> w.mem,
     frames |-> IF w.err = "Ok" THEN ClaimedPages(w.visited) ELSE <<>>,
     visited |-> w.visited]


\* remap: the walk over va's page, then the frame of old_pte
remap(root, mem, va, new_pfn, perms) ==
    LET w == walk_and_modify_region(root, mem, page_aligned(va), PAGE_SIZE,
                 "remap", [pa |-> new_pfn * PAGE_SIZE, perms |-> perms]) IN
    IF w.err # "Ok" THEN [err |-> w.err, mem |-> w.mem, frames |-> <<>>]
    ELSE IF w.visited = <<>> \/ ~HasMappedAddress(w.visited[1].desc)
    THEN [err |-> "NotL3Mapped", mem |-> w.mem, frames |-> <<>>]
    ELSE [err |-> "Ok", mem |-> w.mem,
          frames |-> <<to_pfn(mapped_address(w.visited[1].desc))>>]

\* The first root entry of the kernel half (start_idx = 256 of 512)
KernelSplit == DESCRIPTORS_PER_PAGE \div 2
UpperIndices == KernelSplit .. (DESCRIPTORS_PER_PAGE - 1)
LowerIndices == 0 .. (KernelSplit - 1)

RiscvProcessAddressSpace_new_CopyAll(mem, allocated, kern) ==
    IF ~CanAllocate(allocated)
    THEN [err |-> "NoMemory", mem |-> mem, allocated |-> allocated, root |-> 0]
    ELSE LET a == allocate_page_table(mem, allocated) IN
         [err |-> "Ok",
          mem |-> IF kern = <<>> THEN a.mem
                  ELSE [a.mem EXCEPT ![TableOf(a.pa)] = a.mem[TableOf(kern[1].kernel_l0)]],
          allocated |-> a.allocated,
          root |-> a.pa]

\* RiscvProcessAddressSpace::new: a zeroed root, then entries 256..511 of
\* the kernel root when KERN_ADDR_SPACE is set
RiscvProcessAddressSpace_new(mem, allocated, kern) ==
    IF ~CanAllocate(allocated)
    THEN [err |-> "NoMemory", mem |-> mem, allocated |-> allocated, root |-> 0]
    ELSE LET a == allocate_page_table(mem, allocated) IN
         [err |-> "Ok",
          mem |-> IF kern = <<>> THEN a.mem
                  ELSE [a.mem EXCEPT ![TableOf(a.pa)] =
                           [i \in Indices |->
                               IF i >= KernelSplit THEN a.mem[TableOf(kern[1].kernel_l0)][i]
                               ELSE @[i]]],
          allocated |-> a.allocated,
          root |-> a.pa]

\* protect_and_clone_region: the walk over the source region whose closure,
\* at each valid leaf with a mapped address, maps the frame at the same
\* page of `other` (map_range(..).unwrap()) and returns the descriptor
\* with new_perms; the reference count of the frame is not modelled.
CloneOutcome(err, mem, allocated) ==
    [err |-> err, mem |-> mem, allocated |-> allocated]

\* One page of the walk. The result of map_range is bound (r) before the
\* descriptor of the source is written over it.
CloneStep(root, other, mem, allocated, va, new_perms) ==
    LET t == Descend(mem, root, 0, va) IN
    IF t.kind = "stray" THEN CloneOutcome("NotL3Mapped", mem, allocated)
    ELSE IF t.kind = "hole" THEN CloneOutcome("Ok", mem, allocated)
    ELSE LET pgd == get_desc(mem, t.pa, 3, va) IN
         IF ~is_valid(pgd) THEN CloneOutcome("Ok", mem, allocated)
         ELSE IF ~HasMappedAddress(pgd)
         THEN CloneOutcome("Ok", set_desc(mem, t.pa, 3, va, pgd), allocated)
         ELSE CHOOSE o \in
                  {IF r.err # "Ok"
                   THEN CloneOutcome("Panic", r.mem, r.allocated)
                   ELSE CloneOutcome("Ok",
                            set_desc(r.mem, t.pa, 3, va,
                                     set_permissions(pgd, new_perms)),
                            r.allocated) :
                      r \in {map_range(other, mem, allocated,
                                 MapAttributes(mapped_address(pgd), PAGE_SIZE,
                                               va, PAGE_SIZE, "Normal",
                                               new_perms))}} : TRUE

\* The pages of [va, endVa) in address order; an error ends the walk.
RECURSIVE CloneWalk(_, _, _, _, _, _, _)
CloneWalk(root, other, mem, allocated, va, endVa, new_perms) ==
    IF va >= endVa THEN CloneOutcome("Ok", mem, allocated)
    ELSE CHOOSE o \in
             {IF s.err # "Ok" THEN s
              ELSE CloneWalk(root, other, s.mem, s.allocated, va + PAGE_SIZE,
                             endVa, new_perms) :
                 s \in {CloneStep(root, other, mem, allocated, va, new_perms)}} :
             TRUE

protect_and_clone_region(root, other, mem, allocated, start, size, new_perms) ==
    IF size = 0 THEN [err |-> "Ok", mem |-> mem, allocated |-> allocated]
    ELSE CloneWalk(root, other, mem, allocated, start, start + size, new_perms)

\* ------------------------------------------------------------------------
\* State
\* ------------------------------------------------------------------------
VARIABLES
    mem,        \* table page -> index -> descriptor
    allocated,  \* pages handed out by the table allocator
    last,       \* the last call: arguments, result, and the state before it
    calls,      \* calls made so far
    spaces,     \* process address spaces created so far: their l0_table
    kern_addr_space, \* KERN_ADDR_SPACE: <<>> until set, then <<the kernel address space>>
    satp,       \* the translation-root register: mode, asid, root page number
    entry,      \* a descriptor value and the level of its type
    cpus,       \* each core's position in setup_kern_addr_space
    mmio_ranges, \* the regions map_mmio has handed out, in order
    tasks       \* the tasks and thread groups sys_clone has made

\* Statics of the boot code, outside the page tables
VARIABLES
    CURRENT_VA,         \* allocate_kstack_region: start of the next stack region
    SECONDARY_BOOT_CTX, \* the SecondaryBootInfo the secondary cores read
    SECONDARY_BOOTED,   \* the handshake flag of the secondary boot
    harts,              \* each secondary core's position and stack pointer
    boot,               \* the boot core's position in boot_secondaries
    FIXMAPS,            \* the Fixmap: its l1, l2 and two l3 tables
    temp_guard,         \* the live TempFixmapGuard: <<>> or <<the guard>>
    uaccess             \* a user-copy future, the fault futures and its polls

\* 0xffff_b000_0000_0000: the second region of the kernel half
HEAP_BASE == (DESCRIPTORS_PER_PAGE \div 2) * (2 ^ SHIFT(0)) + 2 ^ SHIFT(1)
\* cpu nodes of the device tree; the boot core is the first
MaxCpus == 3
CpuIds == 0 .. (MaxCpus - 1)
BootCpu == 0
\* MaybeUninit::uninit(): nothing a core may read yet
Uninit == [kstack_addr |-> 0, satp |-> [ppn |-> 0, mode |-> "Bare", asid |-> 0], start_fn |-> "", exception_ret |-> ""]
Stopped == [pc |-> "stopped", sp |-> 0]
smp == <<SECONDARY_BOOT_CTX, SECONDARY_BOOTED, harts, boot>>
\* Fixmap::new
Fixmap_new == [l1 |-> PgTableArray_new, l2 |-> PgTableArray_new, l3 |-> <<PgTableArray_new, PgTableArray_new>>]
fix == <<FIXMAPS, temp_guard>>
\* bytes a user copy is asked for, and page faults it can defer
MaxCopyLen == 2
MaxFaults == 2
\* Riscv64CopyFromUser::new: nothing copied, no deferred fault
Riscv64CopyFromUser_new(len) == [len |-> len, bytes_copied |-> 0, deferred_fault |-> <<>>, pc |-> "idle", ret |-> "none", futs |-> <<>>, copies |-> <<>>, pendings |-> 0]
late == <<CURRENT_VA, smp, fix, uaccess>>
InitLate ==
    /\ CURRENT_VA = HEAP_BASE
    /\ SECONDARY_BOOT_CTX = Uninit
    /\ SECONDARY_BOOTED = FALSE
    /\ harts = [h \in CpuIds \ {BootCpu} |-> Stopped]
    /\ boot = [node |-> 1, pc |-> "node", err |-> "Ok"]
    /\ FIXMAPS = Fixmap_new
    /\ temp_guard = <<>>
    /\ uaccess = [Riscv64CopyFromUser_new(0) EXCEPT !.pc = "none"]

vars == <<mem, allocated, capacity, last, calls, spaces, kern_addr_space,
          satp, entry, cpus, mmio_ranges, tasks, late>>
\* what the calls on one root leave alone
others == <<capacity, spaces, kern_addr_space, satp, entry, cpus,
           mmio_ranges, tasks, late>>

\* One step of a call that the hardware sees, in program order
Event(ev, arg) == [ev |-> ev, arg |-> arg]

\* set_desc(va, desc, _invalidator): the store; the invalidator is not used
set_desc_events(va, invalidator) == <<Event("set_desc", va)>>

\* The leaf stores of one map_range call, in order (try_map_pa hands
\* ctx.invalidator to set_desc and does nothing else with it)
RECURSIVE map_range_events(_, _)
map_range_events(leaves, invalidator) ==
    IF leaves = <<>> THEN <<>>
    ELSE set_desc_events(leaves[1].va, invalidator)
            \o map_range_events(Tail(leaves), invalidator)

\* What the caller's invalidator does when it goes out of scope, after
\* map_range has returned: AllTlbInvalidator flushes in Drop
Invalidators == {"NullTlbInvalidator", "SfenceTlbInvalidator",
                 "AllTlbInvalidator"}
drop_invalidator(invalidator) ==
    IF invalidator = "AllTlbInvalidator"
    THEN <<Event("sfence_vma_all", 0)>>
    ELSE <<>>

\* RiscvKernelAddressSpace { kernel_l0, mmio_ptr }
RiscvKernelAddressSpace(kernel_l0, mmio_ptr) ==
    [kernel_l0 |-> kernel_l0, mmio_ptr |-> mmio_ptr]
\* The first address of the MMIO window of the kernel half
MMIO_BASE == (DESCRIPTORS_PER_PAGE \div 2) * (2 ^ SHIFT(0)) + 2 ^ SHIFT(1)
\* The cores that run setup_kern_addr_space, and a core outside it
Cores == 1 .. 2
Idle == [pc |-> "idle", pa |-> 0, result |-> "none"]
\* no task, no thread group
NoTasks == [list |-> <<>>, tgs |-> <<>>]

\* satp::set: the value the register holds after it
satp_set(mode, asid, ppn) == [mode |-> mode, asid |-> asid, ppn |-> ppn]

\* ------------------------------------------------------------------------
\* Calls
\* ------------------------------------------------------------------------
Call(op, vstart, vsize, pstart, psize, perms, err, frames, pages, leaves) ==
    [op |-> op, vstart |-> vstart, vsize |-> vsize, pstart |-> pstart,
     psize |-> psize, perms |-> perms, err |-> err, frames |-> frames,
     pages |-> pages, leaves |-> leaves, mem0 |-> mem, allocated0 |-> allocated,
     visited |-> <<>>, events |-> <<>>, space |-> 0, other |-> 0,
     fault |-> <<>>]

\* The root table is allocated (zeroed) before the first call.
NoCall(m, a) ==
    [op |-> "none", vstart |-> 0, vsize |-> 0, pstart |-> 0, psize |-> 0,
     perms |-> PermNone, err |-> "Ok", frames |-> <<>>, pages |-> 0,
     leaves |-> <<>>, mem0 |-> m, allocated0 |-> a, visited |-> <<>>,
     events |-> <<>>, space |-> 0, other |-> 0, fault |-> <<>>]

Init ==
    /\ mem = [t \in TableIds |-> PgTableArray_new]
    /\ allocated = 1
    /\ capacity = STATIC_PAGE_COUNT
    /\ last = NoCall(mem, 1)
    /\ calls = 0
    /\ spaces = <<>>
    /\ kern_addr_space = <<>>
    /\ cpus = [c \in Cores |-> Idle]
    /\ mmio_ranges = <<>>
    /\ tasks = NoTasks
    /\ satp = satp_set("Sv48", 0, to_pfn(RootPa))
    /\ entry = [level |-> 3, d |-> invalid]
    /\ InitLate

\* ------------------------------------------------------------------------
\* The engine called directly (boot and kernel mappings): any regions
\* ------------------------------------------------------------------------
PageRegions ==
    {r \in (0 .. MaxPages - 1) \X (1 .. MaxPages) : r[1] + r[2] <= MaxPages}
\* <<physical start page, permissions>>
PhysTargets == {<<0, PermRW>>, <<0, PermXO>>, <<1, PermXO>>, <<2, PermRW>>}
RawStarts == {0, 1}
\* <<virt size, phys size>>: too small, one page, not page-multiples, unequal
RawSizes == {<<0, 0>>, <<PAGE_SIZE, PAGE_SIZE>>,
             <<PAGE_SIZE + 1, PAGE_SIZE + 1>>, <<PAGE_SIZE, 2 * PAGE_SIZE>>}

AlignedAttrs ==
    {MapAttributes(t[1] * PAGE_SIZE, r[2] * PAGE_SIZE, r[1] * PAGE_SIZE,
                   r[2] * PAGE_SIZE, "Normal", t[2]) :
        r \in PageRegions, t \in PhysTargets}
RawAttrs ==
    {MapAttributes(ps, z[2], vs, z[1], "Normal", PermRW) :
        ps \in RawStarts, vs \in RawStarts, z \in RawSizes}

MapRange ==
    /\ calls < MaxOps
    /\ \E attrs \in AlignedAttrs \cup RawAttrs :
         LET r == map_range(RootPa, mem, allocated, attrs) IN
         /\ mem' = r.mem
         /\ allocated' = r.allocated
         /\ last' = Call("map_range", attrs.virt.start, attrs.virt.size,
                         attrs.phys.start, attrs.phys.size, attrs.perms,
                         r.err, <<>>, r.pages, r.leaves)
    /\ calls' = calls + 1
    /\ UNCHANGED others

NextEngine == MapRange
SpecEngine == Init /\ [][NextEngine]_vars

\* ------------------------------------------------------------------------
\* A process address space: map_page, unmap_range, protect_range
\* ------------------------------------------------------------------------
Frames == {1, 2}
ProcPages == MaxPages - 1
\* <<first page, pages>>; one zero-length region
WalkRegions ==
    {r \in (0 .. ProcPages - 1) \X (1 .. ProcPages) : r[1] + r[2] <= ProcPages}
        \cup {<<0, 0>>}

MapPage ==
    /\ calls < MaxCalls
    /\ \E pfn \in Frames, vp \in 0 .. ProcPages - 1, perms \in PermInputs :
         LET r == map_page(RootPa, mem, allocated, pfn, vp * PAGE_SIZE, perms) IN
         /\ mem' = r.mem
         /\ allocated' = r.allocated
         /\ last' = Call("map_page", vp * PAGE_SIZE, PAGE_SIZE, pfn * PAGE_SIZE,
                         PAGE_SIZE, perms, r.err, <<>>, r.pages, r.leaves)
    /\ calls' = calls + 1
    /\ UNCHANGED others

UnmapRange ==
    /\ calls < MaxCalls
    /\ \E r \in WalkRegions :
         LET u == unmap_range(RootPa, mem, r[1] * PAGE_SIZE, r[2] * PAGE_SIZE) IN
         /\ mem' = u.mem
         /\ last' = [Call("unmap_range", r[1] * PAGE_SIZE, r[2] * PAGE_SIZE, 0,
                          0, PermNone, u.err, u.frames, 0, <<>>)
                        EXCEPT !.visited = u.visited]
    /\ calls' = calls + 1
    /\ UNCHANGED <<allocated, others>>

ProtectRange ==
    /\ calls < MaxCalls
    /\ \E r \in WalkRegions, perms \in PermInputs :
         LET w == protect_range(RootPa, mem, r[1] * PAGE_SIZE, r[2] * PAGE_SIZE, perms) IN
         /\ mem' = w.mem
         /\ last' = [Call("protect_range", r[1] * PAGE_SIZE, r[2] * PAGE_SIZE,
                          0, 0, perms, w.err, <<>>, 0, <<>>)
                        EXCEPT !.visited = w.visited]
    /\ calls' = calls + 1
    /\ UNCHANGED <<allocated, others>>

Next == MapPage \/ UnmapRange \/ ProtectRange
Spec == Init /\ [][Next]_vars


\* ------------------------------------------------------------------------
\* What a table walk by the hardware finds for va: the first entry on the
\* path from the root that is not a table descriptor, and its level.
\* ------------------------------------------------------------------------
RECURSIVE EntryFrom(_, _, _, _)
EntryFrom(m, tablePa, level, va) ==
    LET d == get_desc(m, tablePa, level, va) IN
    IF level < 3 /\ IsTableDesc(d)
    THEN EntryFrom(m, next_table_address(d), level + 1, va)
    ELSE [level |-> level, desc |-> d, table |-> TableOf(tablePa),
          index |-> pg_index(level, va)]
EntryAt(m, va) == EntryFrom(m, RootPa, 0, va)
IsLeafDesc(d) == d.valid /\ (d.read \/ d.write \/ d.execute)
IsMapped(m, va) == IsLeafDesc(EntryAt(m, va).desc)
PagesPer(level) == 2 ^ (SHIFT(level) - PAGE_SHIFT)
\* the frame the entry gives to the page of va
FrameAt(m, va) ==
    LET e == EntryAt(m, va) IN e.desc.ppn + ((va \div PAGE_SIZE) % PagesPer(e.level))
PageVa(start, i) == start + i * PAGE_SIZE
RegionPages(size) == 0 .. ((size \div PAGE_SIZE) - 1)
CountLeaves(leaves, level) ==
    Cardinality({i \in 1 .. Len(leaves) : leaves[i].level = level})
PreconditionErrors == {"SizeMismatch", "TooSmall", "PhysNotAligned", "VirtNotAligned"}
LastIsMapRange == last.op = "map_range"
RegionAligned(level) ==
    /\ is_aligned(level, last.vstart)
    /\ is_aligned(level, last.pstart)
    /\ is_aligned(level, last.vsize)

\* C1: a map_range request with unequal sizes, a size below one page or a
\* region that is not page-aligned is rejected with the matching error, and
\* on each of these errors the allocator was not called and no descriptor
\* of any table changed.
C1_PreconditionErrorsTouchNothing ==
    LastIsMapRange =>
        /\ (last.psize # last.vsize => last.err = "SizeMismatch")
        /\ ((last.psize = last.vsize /\ last.psize < PAGE_SIZE)
                => last.err = "TooSmall")
        /\ ((last.psize = last.vsize /\ last.psize >= PAGE_SIZE
             /\ ~region_is_page_aligned(last.pstart, last.psize))
                => last.err = "PhysNotAligned")
        /\ ((last.psize = last.vsize /\ last.psize >= PAGE_SIZE
             /\ region_is_page_aligned(last.pstart, last.psize)
             /\ ~region_is_page_aligned(last.vstart, last.vsize))
                => last.err = "VirtNotAligned")
        /\ (last.err \in PreconditionErrors
                => mem = last.mem0 /\ allocated = last.allocated0)

\* a misaligned virtual start is rejected on a root that already has mappings
C1_Witness ==
    /\ LastIsMapRange
    /\ last.err = "VirtNotAligned"
    /\ last.allocated0 > 1
    /\ mem = last.mem0

\* C2 (as claimed): after a successful map_range, translate at every page
\* of the virtual region returns the frame phys + (va - virt.start) with
\* exactly the requested permissions.
C2_TranslateReturnsRequested ==
    (LastIsMapRange /\ last.err = "Ok") =>
        \A i \in RegionPages(last.vsize) :
            translate(RootPa, mem, PageVa(last.vstart, i)) =
                [kind |-> "Some", pfn |-> to_pfn(last.pstart) + i,
                 perms |-> last.perms]

\* C3: a map_range of one page whose virtual page is already mapped by a
\* leaf fails with AlreadyMapped and leaves every descriptor, the one of
\* that page included, as the first call installed it.
C3_SecondMapIsAlreadyMapped ==
    (/\ LastIsMapRange
     /\ last.vsize = PAGE_SIZE /\ last.psize = PAGE_SIZE
     /\ region_is_page_aligned(last.vstart, last.vsize)
     /\ region_is_page_aligned(last.pstart, last.psize)
     /\ IsMapped(last.mem0, last.vstart))
        => /\ last.err = "AlreadyMapped"
           /\ EntryAt(mem, last.vstart) = EntryAt(last.mem0, last.vstart)
           /\ mem = last.mem0

\* the second call names another frame or other permissions for a page that
\* a 4 KiB leaf maps
C3_Witness ==
    /\ LastIsMapRange
    /\ last.vsize = PAGE_SIZE /\ last.psize = PAGE_SIZE
    /\ last.err = "AlreadyMapped"
    /\ EntryAt(last.mem0, last.vstart).level = 3
    /\ EntryAt(last.mem0, last.vstart).desc
            # new_map_pa(last.pstart, "Normal", last.perms)
    /\ EntryAt(mem, last.vstart) = EntryAt(last.mem0, last.vstart)

\* C4 (as claimed): a region aligned to a superpage size, k times that size
\* long, gets exactly k leaves at that superpage level and none below it.
C4_ExactlyKLeavesAtTheLevel ==
    (LastIsMapRange /\ last.err = "Ok") =>
        \A level \in {1, 2} :
            RegionAligned(level) =>
                /\ CountLeaves(last.leaves, level)
                        = last.vsize \div (2 ^ SHIFT(level))
                /\ \A j \in (level + 1) .. 3 : CountLeaves(last.leaves, j) = 0

\* C4 (amended): a successful map_range of a region whose length and both
\* start addresses are aligned to 2 MiB installs leaves at superpage levels
\* only, each aligned to its level, one 1 GiB leaf standing for 512 leaves
\* of 2 MiB wherever the cursor and the remaining length allow it; no page
\* of the region ends in an L3 table.  A region aligned to 1 GiB and k GiB
\* long gets exactly k leaves, all at the 1 GiB level.
C4_SuperpageLeavesOnly ==
    (LastIsMapRange /\ last.err = "Ok" /\ RegionAligned(2)) =>
        /\ CountLeaves(last.leaves, 3) = 0
        /\ CountLeaves(last.leaves, 2)
            + DESCRIPTORS_PER_PAGE * CountLeaves(last.leaves, 1)
                = last.vsize \div (2 ^ SHIFT(2))
        /\ \A i \in 1 .. Len(last.leaves) :
             LET l == last.leaves[i] IN
             /\ is_aligned(l.level, l.va) /\ is_aligned(l.level, l.pa)
             /\ EntryAt(mem, l.va).level = l.level
             /\ EntryAt(mem, l.va).desc
                    = new_map_pa(l.pa, "Normal", last.perms)
        /\ \A i \in RegionPages(last.vsize) :
             /\ EntryAt(mem, PageVa(last.vstart, i)).level \in {1, 2}
             /\ IsMapped(mem, PageVa(last.vstart, i))
        /\ (RegionAligned(1) =>
                /\ CountLeaves(last.leaves, 1) = last.vsize \div (2 ^ SHIFT(1))
                /\ CountLeaves(last.leaves, 2) = 0)

\* a 2 MiB-aligned region that is not 1 GiB-aligned got more than one leaf
\* at the 2 MiB level
C4_Witness ==
    /\ LastIsMapRange /\ last.err = "Ok"
    /\ RegionAligned(2) /\ ~RegionAligned(1)
    /\ CountLeaves(last.leaves, 2) >= 2
    /\ CountLeaves(last.leaves, 3) = 0

\* C5: when the allocator runs out during map_range the call reports
\* NoMemory, every page covered before the failure is still mapped to its
\* frame with the descriptor the call gave it, and the pages of the region
\* not yet reached are as they were (unmapped ones stay unmapped).
C5_NoRollbackOnNoMemory ==
    (LastIsMapRange /\ last.err = "NoMemory") =>
        /\ ~CanAllocate(allocated)
        /\ \A i \in 0 .. (last.pages - 1) :
             LET va == PageVa(last.vstart, i) IN
             /\ IsMapped(mem, va)
             /\ FrameAt(mem, va) = to_pfn(last.pstart) + i
             /\ permissions(EntryAt(mem, va).desc)
                    = permissions(new_map_pa(0, "Normal", last.perms))
        /\ \A i \in RegionPages(last.vsize) :
             i >= last.pages =>
                LET va == PageVa(last.vstart, i) IN
                /\ IsMapped(mem, va) = IsMapped(last.mem0, va)
                /\ (~IsMapped(last.mem0, va) => ~IsMapped(mem, va))

\* the allocator failed after the call had installed a leaf and before it
\* reached the rest of the region
C5_Witness ==
    /\ LastIsMapRange /\ last.err = "NoMemory"
    /\ last.pages > 0
    /\ last.pages * PAGE_SIZE < last.vsize
    /\ ~IsMapped(last.mem0, last.vstart)
    /\ IsMapped(mem, last.vstart)


\* ------------------------------------------------------------------------
\* Process address space
\* ------------------------------------------------------------------------
LastRegion == RegionPages(last.vsize)
LastVa(i) == PageVa(last.vstart, i)
RECURSIVE MappedFrames(_, _, _)
\* frames of the mapped pages of [va, endVa), in address order
MappedFrames(m, va, endVa) ==
    IF va >= endVa THEN <<>>
    ELSE (IF IsMapped(m, va) THEN <<FrameAt(m, va)>> ELSE <<>>)
         \o MappedFrames(m, va + PAGE_SIZE, endVa)
PermFieldsCleared(d) ==
    [d EXCEPT !.user = FALSE, !.read = FALSE, !.write = FALSE,
              !.execute = FALSE, !.cow = FALSE]

\* C6: unmap_range on a region in which no page is mapped (never mapped, or
\* unmapped before) returns success with an empty list of frames and
\* changes no descriptor.
C6_UnmapOfEmptyRegion ==
    (/\ last.op = "unmap_range"
     /\ \A i \in LastRegion : ~IsMapped(last.mem0, LastVa(i)))
        => /\ last.err = "Ok"
           /\ last.frames = <<>>
           /\ mem = last.mem0

\* the region was mapped once: its L3 table exists and holds no valid leaf
C6_Witness ==
    /\ last.op = "unmap_range"
    /\ last.vsize > 0
    /\ \A i \in LastRegion : ~IsMapped(last.mem0, LastVa(i))
    /\ EntryAt(last.mem0, last.vstart).level = 3
    /\ state(EntryAt(last.mem0, last.vstart).desc) = "Invalid"
    /\ last.err = "Ok" /\ last.frames = <<>>

C8_SecondProtectWins ==
    (/\ last.op = "protect_range" /\ last.err = "Ok"
     /\ \A i \in LastRegion : IsMapped(last.mem0, LastVa(i)))
        => \A p2 \in PermInputs :
             LET second == protect_range(RootPa, mem, last.vstart, last.vsize, p2) IN
             /\ second.err = "Ok"
             /\ \A i \in LastRegion :
                  LET t == translate(RootPa, second.mem, LastVa(i)) IN
                  t.kind = "Some" /\ t.perms = p2

C10_ProtectKeepsFrames ==
    (last.op = "protect_range" /\ ~IsEmptyPerms(last.perms)) =>
        /\ last.err = "Ok"
        /\ \A i \in LastRegion :
             /\ translate(RootPa, mem, LastVa(i)).kind
                    = translate(RootPa, last.mem0, LastVa(i)).kind
             /\ translate(RootPa, mem, LastVa(i)).pfn
                    = translate(RootPa, last.mem0, LastVa(i)).pfn
        /\ \A t \in TableIds, x \in Indices :
             \/ mem[t][x] = last.mem0[t][x]
             \/ /\ \E i \in LastRegion :
                     LET e == EntryAt(last.mem0, LastVa(i)) IN
                     e.level = 3 /\ e.table = t /\ e.index = x
                /\ PermFieldsCleared(mem[t][x])
                        = PermFieldsCleared(last.mem0[t][x])

\* a leaf of the region got new permissions while a page outside it is mapped
C10_Witness ==
    /\ last.op = "protect_range" /\ ~IsEmptyPerms(last.perms)
    /\ mem # last.mem0
    /\ translate(RootPa, mem, last.vstart).kind = "Some"
    /\ translate(RootPa, mem, last.vstart).perms = permissions(set_permissions(invalid, last.perms))
    /\ \E vp \in 0 .. ProcPages - 1 :
         /\ vp * PAGE_SIZE \notin {LastVa(i) : i \in LastRegion}
         /\ IsMapped(mem, vp * PAGE_SIZE)


\* ------------------------------------------------------------------------
\* Descriptor values: what the constructors and the rewriting operations
\* of one descriptor type can produce, from invalid() on.  L0..L2
\* descriptors have new_next_table, L3 descriptors have mark_as_swapped.
\* ------------------------------------------------------------------------
DescLevels == {2, 3}
\* page addresses new_map_pa accepts at the level (others panic)
DescAddrs(level) == {0, 2 ^ SHIFT(level)}

InitDesc ==
    /\ mem = [t \in TableIds |-> PgTableArray_new]
    /\ allocated = 1
    /\ capacity = STATIC_PAGE_COUNT
    /\ last = NoCall(mem, 1)
    /\ calls = 0
    /\ spaces = <<>>
    /\ kern_addr_space = <<>>
    /\ cpus = [c \in Cores |-> Idle]
    /\ mmio_ranges = <<>>
    /\ tasks = NoTasks
    /\ satp = satp_set("Sv48", 0, to_pfn(RootPa))
    /\ entry \in {[level |-> l, d |-> invalid] : l \in DescLevels}
    /\ InitLate

rest == <<mem, allocated, capacity, last, calls, spaces, kern_addr_space, satp,
         cpus, mmio_ranges, tasks, late>>

Invalid ==
    /\ entry' = [entry EXCEPT !.d = invalid]
    /\ UNCHANGED rest

NewNextTable ==
    /\ entry.level < 3
    /\ \E pa \in DescAddrs(3) :
         entry' = [entry EXCEPT !.d = new_next_table(pa)]
    /\ UNCHANGED rest

NewMapPa ==
    /\ \E pa \in DescAddrs(entry.level), mt \in MemoryTypes,
          perms \in PtePermissions :
         /\ is_aligned(entry.level, pa)
         /\ entry' = [entry EXCEPT !.d = new_map_pa(pa, mt, perms)]
    /\ UNCHANGED rest

SetPermissions ==
    /\ \E perms \in PtePermissions :
         entry' = [entry EXCEPT !.d = set_permissions(entry.d, perms)]
    /\ UNCHANGED rest

MarkAsSwapped ==
    /\ entry.level = 3
    /\ entry' = [entry EXCEPT !.d = mark_as_swapped(entry.d)]
    /\ UNCHANGED rest

NextDesc ==
    Invalid \/ NewNextTable \/ NewMapPa \/ SetPermissions \/ MarkAsSwapped
SpecDesc == InitDesc /\ [][NextDesc]_vars

\* The four states of a descriptor
StateInvalid(d) ==
    /\ ~d.valid /\ ~d.read /\ ~d.write /\ ~d.execute /\ ~d.user /\ ~d.global
    /\ ~d.accessed /\ ~d.dirty /\ ~d.cow /\ ~d.swapped /\ d.ppn = 0
StateTable(d) == d.valid /\ ~d.read /\ ~d.write /\ ~d.execute
StateLeaf(d) == d.valid /\ (d.read \/ d.write \/ d.execute)
StateSwapped(d) == ~d.valid /\ d.swapped
StatesOf(d) ==
    {n \in {"Invalid", "Table", "Leaf", "Swapped"} :
        \/ n = "Invalid" /\ StateInvalid(d)
        \/ n = "Table" /\ StateTable(d)
        \/ n = "Leaf" /\ StateLeaf(d)
        \/ n = "Swapped" /\ StateSwapped(d)}

\* C13 (as claimed): every descriptor value obtained from invalid(),
\* new_next_table, new_map_pa, set_permissions and mark_as_swapped, applied
\* in any order, is in exactly one of the states Invalid, Table, Leaf and
\* Swapped.
C13_ExactlyOneOfFourStates == Cardinality(StatesOf(entry.d)) = 1


\* ------------------------------------------------------------------------
\* The kernel address space and process address spaces on one table
\* memory.  Boot has mapped the kernel range twice in the kernel root, by
\* identity in the lower half and at IMAGE_BASE in the upper half, and has
\* set KERN_ADDR_SPACE.
\* ------------------------------------------------------------------------
PoolIds == 0 .. (PoolPages - 1)
\* IMAGE_BASE: the first address of the kernel half
IMAGE_BASE == KernelSplit * (2 ^ SHIFT(0))
PermKernel == from_raw_bits(TRUE, TRUE, TRUE, FALSE, FALSE)
\* kernel ranges: one that fits a 1 GiB leaf, and a single page
KernelRanges == {[start |-> 0, size |-> 2 ^ SHIFT(1)],
                 [start |-> PAGE_SIZE, size |-> PAGE_SIZE]}
\* do_paging_bootstrap: the identity mapping of the kernel range ...
IdentityMapping(kernel_range) ==
    MapAttributes(kernel_range.start, kernel_range.size,
                  kernel_range.start, kernel_range.size, "Normal", PermKernel)
\* ... and its high mapping at IMAGE_BASE
HighMapping(kernel_range) ==
    MapAttributes(kernel_range.start, kernel_range.size,
                  IMAGE_BASE + kernel_range.start, kernel_range.size,
                  "Normal", PermKernel)

\* The tables when arch_init_stage1 reaches setup_kern_addr_space
InitBoot ==
    /\ capacity = PoolPages
    /\ \E kernel_range \in KernelRanges :
       \E idmap \in {map_range(RootPa, [t \in PoolIds |-> PgTableArray_new], 1,
                               IdentityMapping(kernel_range))} :
       \E high \in {map_range(RootPa, idmap.mem, idmap.allocated,
                              HighMapping(kernel_range))} :
         /\ idmap.err = "Ok" /\ high.err = "Ok"
         /\ mem = high.mem
         /\ allocated = high.allocated
         /\ last = NoCall(high.mem, high.allocated)
    /\ calls = 0
    /\ spaces = <<>>
    /\ cpus = [c \in Cores |-> Idle]
    /\ mmio_ranges = <<>>
    /\ tasks = NoTasks
    /\ satp = satp_set("Sv48", 0, to_pfn(RootPa))
    /\ entry = [level |-> 3, d |-> invalid]
    /\ InitLate

\* ... and after it
InitSpaces ==
    /\ InitBoot
    /\ kern_addr_space = <<RiscvKernelAddressSpace(RootPa, MMIO_BASE)>>

\* Addresses and regions the calls name: two pages of the user half, two of
\* the kernel half
SpaceVas == {0, PAGE_SIZE, IMAGE_BASE, IMAGE_BASE + PAGE_SIZE}
\* <<start, size>>
SpaceRegions == {<<0, PAGE_SIZE>>, <<0, 2 * PAGE_SIZE>>,
                 <<IMAGE_BASE, 2 * PAGE_SIZE>>, <<0, 0>>}
\* <<frame, permissions>>
SpaceTargets == {<<1, PermRW>>, <<2, PermRO>>, <<2, PermXO>>}
SpaceIds == 1 .. 2
SpaceCall(c, root, other_root) ==
    [c EXCEPT !.space = root, !.other = other_root]

NewSpace ==
    /\ Len(spaces) < Cardinality(SpaceIds)
    /\ LET n == RiscvProcessAddressSpace_new(mem, allocated, kern_addr_space) IN
       /\ mem' = n.mem
       /\ allocated' = n.allocated
       /\ spaces' = IF n.err = "Ok" THEN Append(spaces, n.root) ELSE spaces
       /\ last' = SpaceCall(Call("new", 0, 0, 0, 0, PermNone, n.err, <<>>, 0,
                                 <<>>), n.root, 0)
    /\ UNCHANGED <<calls, capacity, kern_addr_space, cpus, mmio_ranges, tasks,
                   satp, entry, late>>

SpaceMapPage ==
    /\ calls < MaxSpaceCalls
    /\ \E s \in DOMAIN spaces, va \in SpaceVas, t \in SpaceTargets :
         LET r == map_page(spaces[s], mem, allocated, t[1], va, t[2]) IN
         /\ mem' = r.mem
         /\ allocated' = r.allocated
         /\ last' = SpaceCall(Call("map_page", va, PAGE_SIZE, t[1] * PAGE_SIZE,
                                   PAGE_SIZE, t[2], r.err, <<>>, r.pages,
                                   r.leaves), spaces[s], 0)
    /\ calls' = calls + 1
    /\ UNCHANGED others

SpaceUnmapRange ==
    /\ calls < MaxSpaceCalls
    /\ \E s \in DOMAIN spaces, r \in SpaceRegions :
         LET u == unmap_range(spaces[s], mem, r[1], r[2]) IN
         /\ mem' = u.mem
         /\ last' = [SpaceCall(Call("unmap_range", r[1], r[2], 0, 0, PermNone,
                                    u.err, u.frames, 0, <<>>), spaces[s], 0)
                        EXCEPT !.visited = u.visited]
    /\ calls' = calls + 1
    /\ UNCHANGED <<allocated, others>>

SpaceProtectRange ==
    /\ calls < MaxSpaceCalls
    /\ \E s \in DOMAIN spaces, r \in SpaceRegions, perms \in {PermNone, PermRO} :
         LET w == protect_range(spaces[s], mem, r[1], r[2], perms) IN
         /\ mem' = w.mem
         /\ last' = [SpaceCall(Call("protect_range", r[1], r[2], 0, 0, perms,
                                    w.err, <<>>, 0, <<>>), spaces[s], 0)
                        EXCEPT !.visited = w.visited]
    /\ calls' = calls + 1
    /\ UNCHANGED <<allocated, others>>

Remap ==
    /\ calls < MaxSpaceCalls
    /\ \E s \in DOMAIN spaces, va \in SpaceVas, t \in SpaceTargets :
         LET r == remap(spaces[s], mem, va, t[1], t[2]) IN
         /\ mem' = r.mem
         /\ last' = SpaceCall(Call("remap", va, PAGE_SIZE, t[1] * PAGE_SIZE,
                                   PAGE_SIZE, t[2], r.err, r.frames, 0, <<>>),
                              spaces[s], 0)
    /\ calls' = calls + 1
    /\ UNCHANGED <<allocated, others>>

ProtectAndCloneRegion ==
    /\ calls < MaxSpaceCalls
    /\ \E s \in DOMAIN spaces, o \in DOMAIN spaces, r \in SpaceRegions,
          perms \in {PermRO, PermXO} :
         /\ s # o
         /\ LET c == protect_and_clone_region(spaces[s], spaces[o], mem,
                         allocated, r[1], r[2], perms) IN
            /\ mem' = c.mem
            /\ allocated' = c.allocated
            /\ last' = SpaceCall(Call("protect_and_clone_region", r[1], r[2], 0,
                                      0, perms, c.err, <<>>, 0, <<>>),
                                 spaces[s], spaces[o])
    /\ calls' = calls + 1
    /\ UNCHANGED others

NextSpaces ==
    \/ NewSpace
    \/ SpaceMapPage
    \/ SpaceUnmapRange
    \/ SpaceProtectRange
    \/ Remap
    \/ ProtectAndCloneRegion
SpecSpaces == InitSpaces /\ [][NextSpaces]_vars


\* What a table walk from `root` finds for va
EntryIn(m, root, va) == EntryFrom(m, root, 0, va)
MappedIn(m, root, va) == IsLeafDesc(EntryIn(m, root, va).desc)
FrameIn(m, root, va) ==
    LET e == EntryIn(m, root, va) IN
    e.desc.ppn + ((va \div PAGE_SIZE) % PagesPer(e.level))
\* translate's answer for a page mapped to pfn with perms
Info(pfn, perms) == [kind |-> "Some", pfn |-> pfn, perms |-> perms]

\* C11 (as claimed): after protect_and_clone_region(R, other, P) returns
\* success, at every page of R that the source mapped before the call both
\* address spaces map the page to the frame the source had, with
\* permissions P; pages of R unmapped in the source are unmapped in the
\* other address space.
C11_CloneSharesFrames ==
    (last.op = "protect_and_clone_region" /\ last.err = "Ok") =>
        \A i \in LastRegion :
            LET va == LastVa(i) IN
            IF MappedIn(last.mem0, last.space, va)
            THEN /\ translate(last.other, mem, va)
                      = Info(FrameIn(last.mem0, last.space, va), last.perms)
                 /\ translate(last.space, mem, va)
                      = Info(FrameIn(last.mem0, last.space, va), last.perms)
            ELSE translate(last.other, mem, va) = NoInfo

\* C12 (as claimed): remap(va, new_page, perms) on a mapped page returns
\* the frame mapped before and leaves va mapped to new_page with perms; on
\* a page that is not mapped it returns NotL3Mapped and changes no
\* descriptor.
C12_RemapSwapsFrame ==
    last.op = "remap" =>
        IF MappedIn(last.mem0, last.space, last.vstart)
        THEN /\ last.err = "Ok"
             /\ last.frames = <<FrameIn(last.mem0, last.space, last.vstart)>>
             /\ translate(last.space, mem, last.vstart)
                    = Info(to_pfn(last.pstart), last.perms)
        ELSE /\ last.err = "NotL3Mapped"
             /\ mem = last.mem0


KernRoot == kern_addr_space[1].kernel_l0

\* C14: immediately after a process address space is created, the entries
\* of the kernel half of its root (256..511) equal the same entries of the
\* kernel root, and the entries of the user half (0..255) are all Invalid.
C14_NewRootHasKernelHalf ==
    (last.op = "new" /\ last.err = "Ok") =>
        /\ \A i \in UpperIndices :
             mem[TableOf(last.space)][i] = mem[TableOf(KernRoot)][i]
        /\ \A i \in LowerIndices : mem[TableOf(last.space)][i] = invalid

\* the kernel root has a mapping in each half when the space is created
C14_Witness ==
    /\ last.op = "new" /\ last.err = "Ok"
    /\ last.space = spaces[Len(spaces)]
    /\ \E i \in UpperIndices : IsTableDesc(mem[TableOf(last.space)][i])
    /\ \E i \in LowerIndices : is_valid(mem[TableOf(KernRoot)][i])

\* Table pages reachable from the table at tablePa (a table of `level`),
\* and those reachable from the kernel half of a root
RECURSIVE TablesBelow(_, _, _)
TablesBelow(m, tablePa, level) ==
    IF level = 3 THEN {}
    ELSE UNION {IF IsTableDesc(m[TableOf(tablePa)][i])
                THEN {TableOf(next_table_address(m[TableOf(tablePa)][i]))}
                     \cup TablesBelow(m, next_table_address(
                                             m[TableOf(tablePa)][i]), level + 1)
                ELSE {} : i \in Indices}
KernelHalfTables(m, root) ==
    UNION {IF IsTableDesc(m[TableOf(root)][i])
           THEN {TableOf(next_table_address(m[TableOf(root)][i]))}
                \cup TablesBelow(m, next_table_address(m[TableOf(root)][i]), 1)
           ELSE {} : i \in UpperIndices}
SpaceOps == {"map_page", "unmap_range", "protect_range", "remap",
             "protect_and_clone_region"}

\* C15 (as claimed): no process address-space operation, whatever virtual
\* addresses it is called with, changes an entry of the kernel half of that
\* address space's root or a table reachable through one.
C15_KernelHalfNeverMutated ==
    last.op \in SpaceOps =>
        /\ \A i \in UpperIndices :
             mem[TableOf(last.space)][i] = last.mem0[TableOf(last.space)][i]
        /\ \A t \in KernelHalfTables(last.mem0, last.space) :
             mem[t] = last.mem0[t]

\* Table descriptors that point to table page t, as <<table, index>>
TableRefs(t) ==
    {r \in (0 .. (allocated - 1)) \X Indices :
        /\ IsTableDesc(mem[r[1]][r[2]])
        /\ TableOf(next_table_address(mem[r[1]][r[2]])) = t}
RootIds == {TableOf(KernRoot)} \cup {TableOf(spaces[s]) : s \in DOMAIN spaces}
NonRootTables == (0 .. (allocated - 1)) \ RootIds

\* C16 (as claimed): over all address spaces, each non-root page-table page
\* is referenced by exactly one Table descriptor.
C16_OneReferencePerTable ==
    \A t \in NonRootTables : Cardinality(TableRefs(t)) = 1

\* C16 (amended): each non-root page-table page is referenced by a Table
\* descriptor, and by one only unless it hangs below the kernel half of the
\* kernel root: then every descriptor that references it is an entry of the
\* kernel half of a root, all at the same index, one of them in the kernel
\* root and the others in process roots.
C16_OneReferencePerTree ==
    \A t \in NonRootTables :
        LET refs == TableRefs(t) IN
        /\ refs # {}
        /\ \/ Cardinality(refs) = 1
           \/ /\ \A r \in refs : r[1] \in RootIds /\ r[2] \in UpperIndices
              /\ \A r1, r2 \in refs : r1[2] = r2[2]
              /\ \E r \in refs : r[1] = TableOf(KernRoot)

\* two process roots share the kernel's table with the kernel root, and a
\* process has tables of its own
C16_Witness ==
    /\ \E t \in NonRootTables : Cardinality(TableRefs(t)) = 3
    /\ \E t \in NonRootTables :
         /\ Cardinality(TableRefs(t)) = 1
         /\ \E r \in TableRefs(t) : r[1] \in RootIds \ {TableOf(KernRoot)}

\* ------------------------------------------------------------------------
\* Switching address spaces (activate, deactivate, context_switch) and the
\* page-fault entry
\* ------------------------------------------------------------------------
\* activate without the flush
activate_NoFlush(root) ==
    [satp |-> satp_set("Sv48", 0, to_pfn(root)),
     events |-> <<Event("satp", to_pfn(root))>>]

\* activate: ppn = l0_table >> 12; satp::set(Sv48, 0, ppn); sfence_vma_all()
activate(root) ==
    [satp |-> satp_set("Sv48", 0, to_pfn(root)),
     events |-> <<Event("satp", to_pfn(root)), Event("sfence_vma_all", 0)>>]

\* deactivate: the same with the kernel root, if KERN_ADDR_SPACE is set
deactivate(reg, kern) ==
    IF kern = <<>> THEN [satp |-> reg, events |-> <<>>]
    ELSE [satp |-> satp_set("Sv48", 0, to_pfn(kern[1].kernel_l0)),
          events |-> <<Event("satp", to_pfn(kern[1].kernel_l0)),
                       Event("sfence_vma_all", 0)>>]

\* context_switch(new): activate of the new task's address space
context_switch(root) == activate(root)

Causes == {"InstructionPageFault", "LoadPageFault", "StorePageFault",
           "Breakpoint"}
\* the match on cause; "none" is the arm that panics
access_kind(cause) ==
    CASE cause = "InstructionPageFault" -> "Execute"
      [] cause = "LoadPageFault" -> "Read"
      [] cause = "StorePageFault" -> "Write"
      [] OTHER -> "none"

\* What handle_protection_fault / handle_demand_fault (outside this
\* repository's memory core) may answer
Resolutions == {"Resolved", "Denied", "Deferred", "Err"}

\* run_mem_fault_handler: translate in the current task's address space picks
\* the handler; the handler's answer is an input
run_mem_fault_handler(root, m, fault_addr, resolution) ==
    LET pg_info == translate(root, m, fault_addr) IN
    IF pg_info.kind = "Panic"
    THEN [handler |-> "none", result |-> "Panic"]
    ELSE IF pg_info.kind = "Some"
    THEN [handler |-> "handle_protection_fault", result |-> resolution]
    ELSE [handler |-> "handle_demand_fault", result |-> resolution]

Outcome(err, effect, handler) ==
    [err |-> err, effect |-> effect, handler |-> handler]

\* handle_uaccess_abort
handle_uaccess_abort(root, m, fault_addr, resolution) ==
    LET h == run_mem_fault_handler(root, m, fault_addr, resolution) IN
    CASE h.result = "Resolved" -> Outcome("Ok", "none", h.handler)
      [] h.result = "Denied" -> Outcome("Ok", "UACESS_ABORT_DENIED", h.handler)
      [] h.result = "Deferred" ->
            Outcome("Ok", "UACESS_ABORT_DEFERRED", h.handler)
      [] OTHER -> Outcome("Panic", "none", h.handler)

\* handle_kernel_mem_fault: only a fault inside the uaccess fixup range is
\* handled
handle_kernel_mem_fault(root, m, fault_addr, in_fixup, resolution) ==
    IF in_fixup THEN handle_uaccess_abort(root, m, fault_addr, resolution)
    ELSE Outcome("Panic", "none", "none")

\* handle_page_fault(stval, cause, tf): spp is bit 8 of tf.sstatus
handle_page_fault(root, m, stval, cause, spp, in_fixup, resolution) ==
    IF access_kind(cause) = "none" THEN Outcome("Panic", "none", "none")
    ELSE IF spp = 1
    THEN handle_kernel_mem_fault(root, m, stval, in_fixup, resolution)
    ELSE LET h == run_mem_fault_handler(root, m, stval, resolution) IN
         CASE h.result = "Resolved" -> Outcome("Ok", "none", h.handler)
           [] h.result = "Denied" -> Outcome("Panic", "none", h.handler)
           [] h.result = "Deferred" ->
                 Outcome("Ok", "spawn_kernel_work", h.handler)
           [] h.result = "Err" -> Outcome("Err", "none", h.handler)
           [] OTHER -> Outcome("Panic", "none", h.handler)

\* The address space of the current task: the one satp names
CurrentSpaces == {s \in DOMAIN spaces : satp.ppn = to_pfn(spaces[s])}
FaultAddrs == {0, PAGE_SIZE + 1, IMAGE_BASE}

CpuCall(op, root, events) ==
    [SpaceCall(Call(op, 0, 0, 0, 0, PermNone, "Ok", <<>>, 0, <<>>), root, 0)
        EXCEPT !.events = events]

Activate ==
    /\ \E s \in DOMAIN spaces :
         LET a == context_switch(spaces[s]) IN
         /\ satp' = a.satp
         /\ last' = CpuCall("activate", spaces[s], a.events)
    /\ UNCHANGED <<mem, allocated, calls, capacity, spaces, kern_addr_space,
                   cpus, mmio_ranges, tasks, entry, late>>

Deactivate ==
    /\ \E s \in DOMAIN spaces :
         LET a == deactivate(satp, kern_addr_space) IN
         /\ satp' = a.satp
         /\ last' = CpuCall("deactivate", spaces[s], a.events)
    /\ UNCHANGED <<mem, allocated, calls, capacity, spaces, kern_addr_space,
                   cpus, mmio_ranges, tasks, entry, late>>

PageFault ==
    /\ \E s \in CurrentSpaces, stval \in FaultAddrs, cause \in Causes,
          spp \in {0, 1}, in_fixup \in BOOLEAN, resolution \in Resolutions :
         LET o == handle_page_fault(spaces[s], mem, stval, cause, spp,
                                    in_fixup, resolution) IN
         last' = [SpaceCall(Call("handle_page_fault", stval, 0, 0, 0, PermNone,
                                 o.err, <<>>, 0, <<>>), spaces[s], 0)
                     EXCEPT !.fault = <<[cause |-> cause, spp |-> spp,
                                         in_fixup |-> in_fixup,
                                         resolution |-> resolution,
                                         handler |-> o.handler,
                                         effect |-> o.effect]>>]
    /\ UNCHANGED <<mem, allocated, calls, capacity, spaces, kern_addr_space,
                   cpus, mmio_ranges, tasks, satp, entry, late>>

NextCpu == NewSpace \/ Activate \/ Deactivate \/ PageFault
SpecCpu == InitSpaces /\ [][NextCpu]_vars

\* C17: activate and deactivate write the translation-root register (activate:
\* the root of the address space it is called on; deactivate: the kernel
\* root) and then flush all translations, in that order, before they return;
\* the register holds that root afterwards.
C17_SatpThenFlush ==
    last.op \in {"activate", "deactivate"} =>
        LET root == IF last.op = "activate" THEN last.space ELSE KernRoot IN
        /\ last.events = <<Event("satp", to_pfn(root)),
                           Event("sfence_vma_all", 0)>>
        /\ satp = satp_set("Sv48", 0, to_pfn(root))
        /\ satp.ppn * PAGE_SIZE = root

\* a process was switched to, then switched away from
C17_Witness ==
    /\ last.op = "deactivate"
    /\ last.mem0 = mem
    /\ Len(spaces) = 2
    /\ satp.ppn = to_pfn(KernRoot)
    /\ Len(last.events) = 2

\* C19: a page fault from user mode that the handler answers with Denied
\* does not end in a kernel panic.
C19_DeniedNeverPanics ==
    (/\ last.op = "handle_page_fault"
     /\ last.fault # <<>>
     /\ access_kind(last.fault[1].cause) # "none"
     /\ last.fault[1].spp = 0
     /\ last.fault[1].resolution = "Denied"
     /\ last.fault[1].handler # "none")
        => last.err # "Panic"

\* ------------------------------------------------------------------------
\* map_range as its callers make it: with an invalidator in the context,
\* dropped after the call has returned
\* ------------------------------------------------------------------------
MapRangeWith ==
    /\ calls < MaxTlbCalls
    /\ \E attrs \in AlignedAttrs \cup RawAttrs, invalidator \in Invalidators :
         LET r == map_range(RootPa, mem, allocated, attrs) IN
         /\ mem' = r.mem
         /\ allocated' = r.allocated
         /\ last' = [Call("map_range", attrs.virt.start, attrs.virt.size,
                          attrs.phys.start, attrs.phys.size, attrs.perms,
                          r.err, <<>>, r.pages, r.leaves)
                        EXCEPT !.events =
                            map_range_events(r.leaves, invalidator)
                                \o <<Event("return", 0)>>
                                \o drop_invalidator(invalidator)]
    /\ calls' = calls + 1
    /\ UNCHANGED others

NextTlb == MapRangeWith
SpecTlb == Init /\ [][NextTlb]_vars

\* C18: within one map_range call every store of a leaf descriptor is
\* followed, before the call returns, by a TLB invalidation that covers the
\* page written.
Covers(e, va) ==
    \/ e.ev = "sfence_vma_all"
    \/ e.ev = "sfence_vma" /\ page_aligned(e.arg) = page_aligned(va)

C18_LeafWriteThenInvalidate ==
    last.op = "map_range" =>
        \A i \in DOMAIN last.events :
            last.events[i].ev = "set_desc" =>
                \E j \in DOMAIN last.events :
                    /\ j > i
                    /\ Covers(last.events[j], last.events[i].arg)
                    /\ \A k \in 1 .. j : last.events[k].ev # "return"

\* The valid leaf-level descriptors of the pages of [va, endVa), in address
\* order, as the walk finds them
RECURSIVE ValidLeaves(_, _, _)
ValidLeaves(m, va, endVa) ==
    IF va >= endVa THEN <<>>
    ELSE LET e == EntryAt(m, va) IN
         (IF e.level = 3 /\ is_valid(e.desc) THEN <<Visit(va, e.desc)>>
          ELSE <<>>) \o ValidLeaves(m, va + PAGE_SIZE, endVa)
\* what the closure of the last call returns for desc
LastModifier(desc) ==
    IF last.op = "unmap_range" THEN unmap_range_modifier(desc)
    ELSE protect_range_modifier(last.perms, desc)
\* the tables of the state before the call with, for each visit, the
\* descriptor of the visited page replaced by what the closure returned
RECURSIVE WrittenBack(_, _)
WrittenBack(m0, visited) ==
    IF visited = <<>> THEN m0
    ELSE LET e == EntryAt(last.mem0, Head(visited).va) IN
         WrittenBack([m0 EXCEPT ![e.table][e.index] =
                                    LastModifier(Head(visited).desc)],
                     Tail(visited))
LastWalk == last.op \in {"unmap_range", "protect_range"} /\ last.err = "Ok"

\* C20: the walk of unmap_range and protect_range over a region R calls the
\* closure once for each page of R whose leaf-level descriptor is valid, in
\* address order, and for nothing else (not for Invalid or Swapped entries,
\* not at all for a zero-length R); each of these descriptors is replaced by
\* what the closure returned for it, and every other descriptor of every
\* table stays as it was.
C20_WalkVisitsValidLeavesOnce ==
    LastWalk =>
        /\ last.visited =
               ValidLeaves(last.mem0, last.vstart, last.vstart + last.vsize)
        /\ \A k \in DOMAIN last.visited :
               /\ last.visited[k].va \in {LastVa(i) : i \in LastRegion}
               /\ \A j \in DOMAIN last.visited :
                      last.visited[j].va = last.visited[k].va => j = k
        /\ mem = WrittenBack(last.mem0, last.visited)
        /\ (last.vsize = 0 => last.visited = <<>>)

\* a walk over two pages of which exactly one has a valid descriptor, with
\* a mapped page outside the region
C20_Witness ==
    /\ LastWalk
    /\ last.vsize = 2 * PAGE_SIZE
    /\ Len(last.visited) = 1
    /\ \E vp \in 0 .. ProcPages - 1 :
         /\ vp * PAGE_SIZE \notin {LastVa(i) : i \in LastRegion}
         /\ IsMapped(mem, vp * PAGE_SIZE)
    /\ mem # last.mem0

\* ------------------------------------------------------------------------
\* The walk and superpages
\* ------------------------------------------------------------------------
LastPages == {LastVa(i) : i \in LastRegion}
\* on the way to the page of va the walk of the last call met a valid leaf
\* above the last level
StrayLeaf(va) ==
    LET e == EntryIn(last.mem0, last.space, va) IN
    e.level < 3 /\ IsLeafDesc(e.desc)
Strays == {va \in LastPages : StrayLeaf(va)}

\* C21: when the walk of unmap_range or protect_range over R meets, above
\* the last level, a valid leaf descriptor where a table descriptor is
\* expected, the call fails with NotL3Mapped, the closure is not called for
\* that entry and the entry stays as it was; when every page of R leads to a
\* last-level entry or to an Invalid entry above it, the call succeeds.
C21_StrayLeafIsNotL3Mapped ==
    (last.op \in {"unmap_range", "protect_range"} /\ last.space # 0) =>
        IF Strays # {}
        THEN /\ last.err = "NotL3Mapped"
             /\ \A va \in Strays :
                    EntryIn(mem, last.space, va) = EntryIn(last.mem0, last.space, va)
             /\ \A k \in DOMAIN last.visited : ~StrayLeaf(last.visited[k].va)
        ELSE last.err = "Ok"

\* a walk that met a superpage of the kernel half
C21_Witness ==
    /\ last.op \in {"unmap_range", "protect_range"}
    /\ last.space # 0
    /\ Strays # {}
    /\ last.err = "NotL3Mapped"

\* ------------------------------------------------------------------------
\* The kernel address space: setup_kern_addr_space, map_normal, map_mmio
\* ------------------------------------------------------------------------
\* one past the last virtual address
VA_END == DESCRIPTORS_PER_PAGE * (2 ^ SHIFT(0))

\* PhysMemoryRegion::to_mappable_region: the pages that cover the region,
\* and the offset of its start in the first of them
to_mappable_region(start, size) ==
    [start |-> page_aligned(start),
     size |-> page_aligned(start + size + PAGE_SIZE - 1) - page_aligned(start),
     offset |-> start - page_aligned(start)]

\* PtePermissions::rw(false)
PermDevice == from_raw_bits(TRUE, TRUE, FALSE, FALSE, FALSE)

\* RiscvKernelAddressSpace::do_map
do_map(kas, m, a, attrs) == map_range(kas.kernel_l0, m, a, attrs)

\* map_normal
map_normal(kas, m, a, pstart, psize, vstart, vsize, perms) ==
    do_map(kas, m, a, MapAttributes(pstart, psize, vstart, vsize, "Normal", perms))

MmioOutcome(err, kas, m, a, va, region) ==
    [err |-> err, kas |-> kas, mem |-> m, allocated |-> a, va |-> va,
     region |-> region]

\* map_mmio that moves the cursor before it knows whether the mapping worked
map_mmio_AdvanceAlways(kas, m, a, pstart, psize) ==
    LET pmr == to_mappable_region(pstart, psize)
        base_va == kas.mmio_ptr IN
    CHOOSE o \in
        {MmioOutcome(r.err, [kas EXCEPT !.mmio_ptr = base_va + pmr.size],
                     r.mem, r.allocated, base_va + pmr.offset,
                     [start |-> base_va, size |-> pmr.size]) :
            r \in {do_map(kas, m, a,
                          MapAttributes(pmr.start, pmr.size, base_va, pmr.size,
                                        "Device", PermDevice))}} : TRUE

\* map_mmio: map the rounded region at the cursor; on success move the
\* cursor past it and return the address of the region's first byte
map_mmio(kas, m, a, pstart, psize) ==
    LET pmr == to_mappable_region(pstart, psize)
        base_va == kas.mmio_ptr IN
    CHOOSE o \in
        {IF r.err # "Ok"
         THEN MmioOutcome(r.err, kas, r.mem, r.allocated, 0,
                          [start |-> base_va, size |-> pmr.size])
         ELSE MmioOutcome("Ok", [kas EXCEPT !.mmio_ptr = base_va + pmr.size],
                          r.mem, r.allocated, base_va + pmr.offset,
                          [start |-> base_va, size |-> pmr.size]) :
            r \in {do_map(kas, m, a,
                          MapAttributes(pmr.start, pmr.size, base_va, pmr.size,
                                        "Device", PermDevice))}} : TRUE

\* OnceLock::set: the value is stored if none was, otherwise it is handed
\* back as an error
OnceLock_set(cell, value) ==
    IF cell = <<>> THEN [cell |-> <<value>>, result |-> "Ok"]
    ELSE [cell |-> cell, result |-> "Err"]

\* setup_kern_addr_space that answers Ok whatever the cell said
setup_kern_addr_space_OkAlways(cell, pa) ==
    [cell |-> OnceLock_set(cell, RiscvKernelAddressSpace(pa, MMIO_BASE)).cell,
     result |-> "Ok"]

\* setup_kern_addr_space: KERN_ADDR_SPACE.set(..).map_err(|_| InUse)
setup_kern_addr_space(cell, pa) ==
    LET r == OnceLock_set(cell, RiscvKernelAddressSpace(pa, MMIO_BASE)) IN
    [cell |-> r.cell, result |-> IF r.result = "Ok" THEN "Ok" ELSE "InUse"]

\* table addresses a caller may pass as the root
SetupRoots == {RootPa, PAGE_SIZE}
\* <<physical start, size>>: one page, part of a page, a region that
\* straddles a page boundary, an empty region
MmioRegions == {<<4, 2>>, <<5, 1>>, <<5, 2>>, <<6, 0>>}
\* <<physical start, virtual start>> of one page: in the image area, and in
\* the MMIO window ahead of the cursor
NormalPages == {<<2, IMAGE_BASE + 2 ^ SHIFT(2)>>, <<2, MMIO_BASE + PAGE_SIZE>>}

\* setup_kern_addr_space(pa), first half: the address space value is built
SetupBuild ==
    /\ \E c \in Cores, pa \in SetupRoots :
         /\ cpus[c].pc \in {"idle", "done"}
         /\ cpus' = [cpus EXCEPT ![c] = [pc |-> "built", pa |-> pa,
                                         result |-> "none"]]
    /\ UNCHANGED <<mem, allocated, capacity, last, calls, spaces,
                   kern_addr_space, satp, entry, mmio_ranges, tasks, late>>

\* ... second half: KERN_ADDR_SPACE.set(addr_space)
SetupSet ==
    /\ \E c \in Cores :
         /\ cpus[c].pc = "built"
         /\ LET r == setup_kern_addr_space(kern_addr_space, cpus[c].pa) IN
            /\ kern_addr_space' = r.cell
            /\ cpus' = [cpus EXCEPT ![c] = [pc |-> "done", pa |-> cpus[c].pa,
                                            result |-> r.result]]
            /\ last' = [SpaceCall(Call("setup_kern_addr_space", 0, 0,
                                       cpus[c].pa, 0, PermNone, r.result, <<>>,
                                       0, <<>>), c, 0)
                           EXCEPT !.fault = kern_addr_space]
    /\ UNCHANGED <<mem, allocated, capacity, calls, spaces, satp, entry,
                   mmio_ranges, tasks, late>>

MapNormal ==
    /\ calls < MaxKernCalls
    /\ kern_addr_space # <<>>
    /\ \E n \in NormalPages :
         LET r == map_normal(kern_addr_space[1], mem, allocated, n[1] * PAGE_SIZE,
                             PAGE_SIZE, n[2], PAGE_SIZE, PermRW) IN
         /\ mem' = r.mem
         /\ allocated' = r.allocated
         /\ last' = Call("map_normal", n[2], PAGE_SIZE, n[1] * PAGE_SIZE,
                         PAGE_SIZE, PermRW, r.err, <<>>, r.pages, r.leaves)
    /\ calls' = calls + 1
    /\ UNCHANGED others

MapMmio ==
    /\ calls < MaxKernCalls
    /\ kern_addr_space # <<>>
    /\ \E p \in MmioRegions :
         /\ kern_addr_space[1].mmio_ptr + to_mappable_region(p[1], p[2]).size
                <= VA_END
         /\ LET r == map_mmio(kern_addr_space[1], mem, allocated, p[1], p[2]) IN
            /\ mem' = r.mem
            /\ allocated' = r.allocated
            /\ kern_addr_space' = <<r.kas>>
            /\ mmio_ranges' = IF r.err = "Ok"
                              THEN Append(mmio_ranges, r.region)
                              ELSE mmio_ranges
            /\ last' = [Call("map_mmio", r.region.start, r.region.size, p[1],
                             p[2], PermDevice, r.err, <<r.va>>, 0, <<>>)
                           EXCEPT !.fault = kern_addr_space]
    /\ calls' = calls + 1
    /\ UNCHANGED <<capacity, spaces, satp, entry, cpus, tasks, late>>

NextKern == SetupBuild \/ SetupSet \/ MapNormal \/ MapMmio
InitKern == InitBoot /\ kern_addr_space = <<>>
SpecKern == InitKern /\ [][NextKern]_vars

\* the kernel address space before the last call
LastKas == last.fault[1]
Overlap(a, b) ==
    /\ a.size > 0 /\ b.size > 0
    /\ a.start < b.start + b.size
    /\ b.start < a.start + a.size
RECURSIVE SumSizes(_)
SumSizes(ranges) ==
    IF ranges = <<>> THEN 0 ELSE Head(ranges).size + SumSizes(Tail(ranges))

\* C22: over any sequence of map_mmio calls the MMIO cursor never decreases:
\* a successful call moves it forward by exactly the size of the page-rounded
\* region it mapped, a failed call leaves it where it was, and the virtual
\* ranges handed out by successful calls are pairwise disjoint.
C22_MmioCursorMonotonic ==
    kern_addr_space # <<>> =>
        /\ kern_addr_space[1].mmio_ptr = MMIO_BASE + SumSizes(mmio_ranges)
        /\ \A i, j \in DOMAIN mmio_ranges :
               i # j => ~Overlap(mmio_ranges[i], mmio_ranges[j])
        /\ (last.op = "map_mmio" =>
               /\ kern_addr_space[1].mmio_ptr >= LastKas.mmio_ptr
               /\ (last.err = "Ok" =>
                      /\ kern_addr_space[1].mmio_ptr =
                             LastKas.mmio_ptr
                                 + to_mappable_region(last.pstart, last.psize).size
                      /\ last.vstart = LastKas.mmio_ptr
                      /\ last.frames[1] =
                             LastKas.mmio_ptr + (last.pstart % PAGE_SIZE))
               /\ (last.err # "Ok" =>
                      kern_addr_space[1].mmio_ptr = LastKas.mmio_ptr))

\* a region handed out, then a call that failed
C22_Witness ==
    /\ last.op = "map_mmio"
    /\ last.err # "Ok"
    /\ Len(mmio_ranges) >= 1
    /\ kern_addr_space[1].mmio_ptr > MMIO_BASE

\* C23: the kernel address space is set at most once: the first
\* setup_kern_addr_space call to reach the cell succeeds; every later one,
\* from the same or another core, answers InUse and leaves the recorded root
\* table address and MMIO cursor as they were.
C23_SetOnce ==
    /\ (last.op = "setup_kern_addr_space" =>
           IF last.fault = <<>>
           THEN /\ last.err = "Ok"
                /\ kern_addr_space =
                       <<RiscvKernelAddressSpace(last.pstart, MMIO_BASE)>>
           ELSE /\ last.err = "InUse"
                /\ kern_addr_space = last.fault)
    /\ Cardinality({c \in Cores : cpus[c].result = "Ok"}) <= 1
    /\ (kern_addr_space = <<>> => \A c \in Cores : cpus[c].result = "none")

\* both cores were inside setup_kern_addr_space at once with different
\* roots; one won, and the loser found a cursor that had already moved
C23_Witness ==
    /\ last.op = "setup_kern_addr_space"
    /\ last.err = "InUse"
    /\ last.pstart # kern_addr_space[1].kernel_l0
    /\ kern_addr_space[1].mmio_ptr > MMIO_BASE
    /\ \A c \in Cores : cpus[c].pc = "done"

\* ------------------------------------------------------------------------
\* sys_clone
\* ------------------------------------------------------------------------
CloneFlags == {"CLONE_VM", "CLONE_SIGHAND", "CLONE_PARENT", "CLONE_THREAD"}
\* CloneFlags::from_bits_truncate: bits that name no flag are dropped
from_bits_truncate(bits) == bits \cap CloneFlags
\* the flag words callers pass; SIGCHLD is the exit signal in the low byte
FlagWords ==
    {{"SIGCHLD"}, {"CLONE_VM", "SIGCHLD"},
     {"CLONE_VM", "CLONE_SIGHAND", "CLONE_THREAD"}, {"CLONE_THREAD"},
     {"CLONE_PARENT"}}

\* permissions of a page shared copy-on-write
PermCow == from_raw_bits(TRUE, FALSE, FALSE, TRUE, TRUE)
\* the part of the user half a task's mappings live in
UserRegion == [start |-> 0, size |-> 2 * PAGE_SIZE]

\* ProcVM::clone_as_cow: a new address space that shares the caller's user
\* pages copy-on-write
clone_as_cow(root, m, a, kern) ==
    CHOOSE o \in
        {IF n.err # "Ok"
         THEN [err |-> n.err, mem |-> n.mem, allocated |-> n.allocated,
               root |-> 0]
         ELSE CHOOSE c \in
                  {[err |-> r.err, mem |-> r.mem, allocated |-> r.allocated,
                    root |-> n.root] :
                      r \in {protect_and_clone_region(root, n.root, n.mem,
                                 n.allocated, UserRegion.start,
                                 UserRegion.size, PermCow)}} : TRUE :
            n \in {RiscvProcessAddressSpace_new(m, a, kern)}} : TRUE

Task(tid, process, vm) == [tid |-> tid, process |-> process, vm |-> vm]
\* ThreadGroup::new_child: a thread group whose parent is tg
new_child(tgs, tg) == Append(tgs, tg)

CloneOut(err, t, m, a, sp) ==
    [err |-> err, tasks |-> t, mem |-> m, allocated |-> a, spaces |-> sp]

\* sys_clone that always builds a copy-on-write address space
sys_clone_NeverShare(bits, cur, t, m, a, sp, kern) ==
    LET current_task == t.list[cur]
        tgs == new_child(t.tgs, current_task.process) IN
    CHOOSE o \in
        {IF v.err = "Ok"
         THEN CloneOut("Ok",
                       [list |-> Append(t.list, Task(Len(t.list) + 1, Len(tgs),
                                                     Len(sp) + 1)),
                        tgs |-> tgs],
                       v.mem, v.allocated, Append(sp, v.root))
         ELSE CloneOut(v.err, [t EXCEPT !.tgs = tgs], v.mem, v.allocated, sp) :
            v \in {clone_as_cow(sp[current_task.vm], m, a, kern)}} : TRUE

\* sys_clone(flags, ..): the thread group, then the address space, then the
\* task; vm is an index into the address spaces (the Arc it points to)
sys_clone(bits, cur, t, m, a, sp, kern) ==
    LET flags == from_bits_truncate(bits)
        current_task == t.list[cur]
        thread == "CLONE_THREAD" \in flags
        tgid_parent == IF "CLONE_PARENT" \in flags
                       THEN t.tgs[current_task.process]
                       ELSE current_task.process
        tgs == IF thread THEN t.tgs ELSE new_child(t.tgs, tgid_parent)
        tg == IF thread THEN current_task.process ELSE Len(tgs)
    IN
    IF thread /\ ~({"CLONE_SIGHAND", "CLONE_VM"} \subseteq flags)
    THEN CloneOut("InvalidValue", t, m, a, sp)
    ELSE IF ~thread /\ "CLONE_PARENT" \in flags /\ tgid_parent = 0
    THEN CloneOut("InvalidValue", t, m, a, sp)
    ELSE IF "CLONE_VM" \in flags
    THEN CloneOut("Ok",
                  [list |-> Append(t.list, Task(Len(t.list) + 1, tg,
                                                current_task.vm)),
                   tgs |-> tgs], m, a, sp)
    ELSE CHOOSE o \in
             {IF v.err = "Ok"
              THEN CloneOut("Ok",
                            [list |-> Append(t.list,
                                             Task(Len(t.list) + 1, tg,
                                                  Len(sp) + 1)),
                             tgs |-> tgs],
                            v.mem, v.allocated, Append(sp, v.root))
              ELSE CloneOut(v.err, [t EXCEPT !.tgs = tgs], v.mem,
                            v.allocated, sp) :
                 v \in {clone_as_cow(sp[current_task.vm], m, a, kern)}} : TRUE

\* The first process: its address space is made by
\* RiscvProcessAddressSpace::new, its thread group has no parent
CreateInit ==
    /\ tasks.list = <<>>
    /\ spaces = <<>>
    /\ LET n == RiscvProcessAddressSpace_new(mem, allocated, kern_addr_space) IN
       /\ n.err = "Ok"
       /\ mem' = n.mem
       /\ allocated' = n.allocated
       /\ spaces' = <<n.root>>
       /\ tasks' = [list |-> <<Task(1, 1, 1)>>, tgs |-> <<0>>]
       /\ last' = SpaceCall(Call("new", 0, 0, 0, 0, PermNone, n.err, <<>>, 0,
                                 <<>>), n.root, 0)
    /\ UNCHANGED <<calls, capacity, kern_addr_space, cpus, mmio_ranges, satp,
                   entry, late>>

\* <<frame, permissions, page>>
TaskTargets == {<<1, PermRW, 0>>, <<2, PermRO, PAGE_SIZE>>}

\* a task maps a page of its user region
TaskMapPage ==
    /\ calls < MaxCloneCalls
    /\ \E cur \in DOMAIN tasks.list, t \in TaskTargets :
         LET root == spaces[tasks.list[cur].vm]
             va == t[3]
             r == map_page(root, mem, allocated, t[1], va, t[2]) IN
         /\ mem' = r.mem
         /\ allocated' = r.allocated
         /\ last' = SpaceCall(Call("map_page", va, PAGE_SIZE, t[1] * PAGE_SIZE,
                                   PAGE_SIZE, t[2], r.err, <<>>, r.pages,
                                   r.leaves), root, 0)
    /\ calls' = calls + 1
    /\ UNCHANGED others

SysClone ==
    /\ Len(tasks.list) < MaxTasks
    /\ Len(tasks.tgs) < MaxTasks
    /\ \E cur \in DOMAIN tasks.list, bits \in FlagWords :
         LET c == sys_clone(bits, cur, tasks, mem, allocated, spaces,
                            kern_addr_space) IN
         /\ tasks' = c.tasks
         /\ mem' = c.mem
         /\ allocated' = c.allocated
         /\ spaces' = c.spaces
         /\ last' = [SpaceCall(Call("sys_clone", 0, 0, 0, 0, PermNone, c.err,
                                    <<>>, 0, <<>>), cur, Len(spaces))
                        EXCEPT !.fault = <<bits, tasks>>]
    /\ UNCHANGED <<calls, capacity, kern_addr_space, cpus, mmio_ranges, satp,
                   entry, late>>

NextClone == CreateInit \/ TaskMapPage \/ SysClone
SpecClone == InitSpaces /\ [][NextClone]_vars

LastFlags == from_bits_truncate(last.fault[1])
LastTasks == last.fault[2]
NewTask == tasks.list[Len(tasks.list)]
Caller == LastTasks.list[last.space]

\* C24: a successful sys_clone adds one task. With CLONE_VM clear the task
\* has an address space that did not exist before the call, in which every
\* page of the caller's user region that the caller maps is mapped to the
\* same frame, not writable, in both; with CLONE_VM set the task has the
\* caller's own address-space object and no address space was created. A
\* failed sys_clone adds no task.
C24_CloneVmShares ==
    last.op = "sys_clone" =>
        IF last.err = "Ok"
        THEN /\ Len(tasks.list) = Len(LastTasks.list) + 1
             /\ IF "CLONE_VM" \in LastFlags
                THEN /\ NewTask.vm = Caller.vm
                     /\ spaces = [i \in 1 .. last.other |-> spaces[i]]
                     /\ mem = last.mem0
                ELSE /\ Len(spaces) = last.other + 1
                     /\ NewTask.vm = Len(spaces)
                     /\ \A i \in DOMAIN LastTasks.list :
                            LastTasks.list[i].vm # NewTask.vm
                     /\ spaces[NewTask.vm] \notin
                            {spaces[i] : i \in 1 .. last.other}
                     /\ \A va \in {0, PAGE_SIZE} :
                            LET was == translate(spaces[Caller.vm], last.mem0, va)
                                par == translate(spaces[Caller.vm], mem, va)
                                chi == translate(spaces[NewTask.vm], mem, va) IN
                            IF was.kind = "Some"
                            THEN /\ par.kind = "Some" /\ chi.kind = "Some"
                                 /\ par.pfn = was.pfn /\ chi.pfn = was.pfn
                                 /\ ~par.perms.write /\ ~chi.perms.write
                            ELSE chi.kind = "None"
        ELSE /\ tasks.list = LastTasks.list
             /\ Len(spaces) = last.other

\* a fork of a task that maps a page, after a thread was made
C24_Witness ==
    /\ last.op = "sys_clone"
    /\ last.err = "Ok"
    /\ "CLONE_VM" \notin LastFlags
    /\ translate(spaces[Caller.vm], last.mem0, 0).kind = "Some"
    /\ \E i, j \in DOMAIN tasks.list : i # j /\ tasks.list[i].vm = tasks.list[j].vm

\* ------------------------------------------------------------------------
\* The steps of map_range: level choice, descent, collisions
\* ------------------------------------------------------------------------
\* what was left of the region when map_range installed leaf `l`
Remaining(l) == last.vsize - (l.va - last.vstart)
SuperLeaves ==
    {i \in 1 .. Len(last.leaves) : last.leaves[i].level \in {1, 2}}

\* C25 (as claimed): a superpage leaf is installed only where the current
\* virtual address, the current physical address and the remaining length
\* are all multiples of that level's coverage.
C25_RemainingLengthAligned ==
    LastIsMapRange =>
        \A i \in SuperLeaves :
            LET l == last.leaves[i] IN
            /\ is_aligned(l.level, l.va)
            /\ is_aligned(l.level, l.pa)
            /\ is_aligned(l.level, Remaining(l))

\* C25 (amended): a superpage leaf is installed only where the current
\* virtual address and the current physical address are multiples of that
\* level's coverage and the remaining length is at least that coverage;
\* the leaf then stands in the table of its level.
C25_SuperLeafAlignedAndFits ==
    LastIsMapRange =>
        \A i \in SuperLeaves :
            LET l == last.leaves[i] IN
            /\ is_aligned(l.level, l.va)
            /\ is_aligned(l.level, l.pa)
            /\ Remaining(l) >= 2 ^ SHIFT(l.level)
            /\ l.pa - last.pstart = l.va - last.vstart
            /\ EntryAt(mem, l.va).level = l.level
            /\ EntryAt(mem, l.va).desc = new_map_pa(l.pa, "Normal", last.perms)

\* a 2 MiB leaf was installed while the remaining length was not a multiple
\* of 2 MiB, and the tail of the region went to an L3 table
C25_Witness ==
    /\ LastIsMapRange /\ last.err = "Ok"
    /\ \E i \in SuperLeaves :
         /\ last.leaves[i].level = 2
         /\ ~is_aligned(2, Remaining(last.leaves[i]))
    /\ CountLeaves(last.leaves, 3) >= 1

\* ------------------------------------------------------------------------
\* map_range on regions as large as one root entry covers
\* ------------------------------------------------------------------------
\* <<virt start, phys start, size>>: starts on a root-entry or L1 boundary,
\* sizes of one L1 entry, one root entry, and one root entry plus a page
TopRegions ==
    {r \in {0, 2 ^ SHIFT(0)} \X {0, 2 ^ SHIFT(1), 2 ^ SHIFT(0)}
            \X {2 ^ SHIFT(1), 2 ^ SHIFT(0), 2 ^ SHIFT(0) + PAGE_SIZE} :
        r[1] + r[3] <= VA_END}
TopAttrs ==
    {MapAttributes(r[2], r[3], r[1], r[3], "Normal", p) :
        r \in TopRegions, p \in {PermRW, PermXO}}

MapRangeTop ==
    /\ calls < MaxOps
    /\ \E attrs \in TopAttrs :
         LET r == map_range(RootPa, mem, allocated, attrs) IN
         /\ mem' = r.mem
         /\ allocated' = r.allocated
         /\ last' = Call("map_range", attrs.virt.start, attrs.virt.size,
                         attrs.phys.start, attrs.phys.size, attrs.perms,
                         r.err, <<>>, r.pages, r.leaves)
    /\ calls' = calls + 1
    /\ UNCHANGED others

NextTop == MapRangeTop
SpecTop == Init /\ [][NextTop]_vars

\* C26: every leaf map_range installs is at the largest level, among the
\* levels whose descriptor type can map a physical address (512 GiB, 1 GiB,
\* 2 MiB, 4 KiB), for which could_map holds at the current addresses and
\* remaining length: could_map fails at every larger level.
C26_LargestEligibleLevel ==
    LastIsMapRange =>
        \A i \in 1 .. Len(last.leaves) :
            LET l == last.leaves[i] IN
            \A k \in 0 .. l.level - 1 :
                ~could_map(k, l.pa, Remaining(l), l.va)

\* The table of level k on the path of va (the entries above it are tables)
RECURSIVE PathTable(_, _, _)
PathTable(m, k, va) ==
    IF k = 0 THEN RootPa
    ELSE next_table_address(get_desc(m, PathTable(m, k - 1, va), k - 1, va))

\* The first step of the last map_range went down through the entry of
\* level k: no leaf fitted at the levels above and every entry above is a
\* table now.
Descended(k) ==
    /\ LastIsMapRange
    /\ last.err \notin PreconditionErrors
    /\ k <= EntryAt(mem, last.vstart).level
    /\ \A j \in 1 .. k : ~could_map(j, last.pstart, last.psize, last.vstart)
\* a table page the last call took from the allocator
IsNewTable(pa) == TableOf(pa) >= last.allocated0 /\ TableOf(pa) < allocated
\* the entry of level k as the descent found it, and as the call left it
PreEntry(k) ==
    IF TableOf(PathTable(mem, k, last.vstart)) < last.allocated0
    THEN get_desc(last.mem0, PathTable(mem, k, last.vstart), k, last.vstart)
    ELSE invalid
PostEntry(k) == get_desc(mem, PathTable(mem, k, last.vstart), k, last.vstart)
\* pages the call had taken when the descent came to the entry of level k
TakenAbove(k) ==
    Cardinality({j \in 1 .. k : IsNewTable(PathTable(mem, j, last.vstart))})

\* C27: where map_range descends through an intermediate entry, an Invalid
\* entry gets a Table descriptor for one page taken from the allocator
\* (NoMemory, and no write, when the allocator has none left), a Table
\* entry is kept and its child reused without a call of the allocator, and
\* a Leaf entry ends the call with AlreadyMapped and stays as it was.  A
\* one-page call takes exactly as many pages as it found Invalid entries
\* that it linked.
C27_DescentByEntryState ==
    /\ \A k \in 0 .. 2 :
        Descended(k) =>
            /\ StateInvalid(PreEntry(k)) =>
                    IF last.allocated0 + TakenAbove(k) < capacity
                    THEN /\ StateTable(PostEntry(k))
                         /\ IsNewTable(next_table_address(PostEntry(k)))
                         /\ PostEntry(k)
                              = new_next_table((last.allocated0 + TakenAbove(k))
                                                    * PAGE_SIZE)
                    ELSE /\ last.err = "NoMemory"
                         /\ PostEntry(k) = PreEntry(k)
                         /\ allocated = last.allocated0 + TakenAbove(k)
            /\ StateTable(PreEntry(k)) =>
                    /\ PostEntry(k) = PreEntry(k)
                    /\ ~IsNewTable(next_table_address(PostEntry(k)))
            /\ StateLeaf(PreEntry(k)) =>
                    /\ last.err = "AlreadyMapped"
                    /\ PostEntry(k) = PreEntry(k)
                    /\ allocated = last.allocated0 + TakenAbove(k)
    /\ (LastIsMapRange /\ last.vsize = PAGE_SIZE
            /\ last.err \notin PreconditionErrors) =>
            allocated - last.allocated0
                = Cardinality({k \in 0 .. 2 :
                      /\ Descended(k)
                      /\ StateInvalid(PreEntry(k))
                      /\ StateTable(PostEntry(k))})

\* one descent reused the tables under the root entry and under the L1
\* entry, and linked a new table under an Invalid L2 entry
C27_Witness ==
    /\ Descended(2)
    /\ last.err = "Ok"
    /\ StateTable(PreEntry(0)) /\ StateTable(PreEntry(1))
    /\ StateInvalid(PreEntry(2)) /\ StateTable(PostEntry(2))
    /\ allocated = last.allocated0 + 1

\* ------------------------------------------------------------------------
\* map_at_level statement by statement, on a pool whose free pages hold
\* stale contents and with an allocator that does not zero what it returns
\* ------------------------------------------------------------------------
\* SmallocPageAlloc::allocate_page_table: the next free page, as it is
SmallocPageAlloc_allocate_page_table(m, a) ==
    [pa |-> a * PAGE_SIZE, mem |-> m, allocated |-> a + 1]

StaleLeaves == [i \in Indices |-> new_map_pa(PAGE_SIZE, "Normal", PermRW)]
StaleTables == [i \in Indices |-> new_next_table(RootPa)]
PoolContents == {PgTableArray_new, StaleLeaves, StaleTables}

InitLink ==
    /\ \E g \in [TableIds \ {TableOf(RootPa)} -> PoolContents] :
         mem = [t \in TableIds |->
                    IF t = TableOf(RootPa) THEN PgTableArray_new ELSE g[t]]
    /\ allocated = 1
    /\ capacity = STATIC_PAGE_COUNT
    /\ last = NoCall(mem, 1)
    /\ calls = 0
    /\ spaces = <<>>
    /\ kern_addr_space = <<>>
    /\ cpus = [c \in Cores |-> Idle]
    /\ mmio_ranges = <<>>
    /\ tasks = NoTasks
    /\ satp = satp_set("Sv48", 0, to_pfn(RootPa))
    /\ entry = [level |-> 3, d |-> invalid]
    /\ InitLate

\* the tables a walk from `tablePa` (a table of `level`) can come to
RECURSIVE ReachFrom(_, _, _)
ReachFrom(m, tablePa, level) ==
    {TableOf(tablePa)} \cup
        (IF level >= 3 THEN {}
         ELSE UNION {ReachFrom(m, next_table_address(m[TableOf(tablePa)][i]),
                               level + 1) :
                        i \in {x \in Indices :
                                  IsTableDesc(m[TableOf(tablePa)][x])}})
Reachable(m) == ReachFrom(m, RootPa, 0)

LinkVas == {0, 2 ^ SHIFT(2)}
\* position inside map_at_level: <<>> outside of it, else
\* <<statement reached, parent table, level, new page>>
LinkCall(op, va, level, err, pos) ==
    [Call(op, va, 0, 0, 0, PermNone, err, <<>>, 0, <<>>)
        EXCEPT !.other = level, !.fault = pos]

\* get_desc, the two early returns, and the call of the allocator
MapAtLevelBegin ==
    /\ calls < MaxLinkCalls
    /\ last.fault = <<>>
    /\ \E va \in LinkVas, k \in 0 .. 2 :
         /\ k <= EntryAt(mem, va).level
         /\ LET t == PathTable(mem, k, va)
                desc == get_desc(mem, t, k, va) IN
            IF IsTableDesc(desc)
            THEN /\ last' = LinkCall("map_at_level", va, k, "Ok", <<>>)
                 /\ UNCHANGED <<mem, allocated>>
            ELSE IF is_valid(desc)
            THEN /\ last' = LinkCall("map_at_level", va, k, "AlreadyMapped", <<>>)
                 /\ UNCHANGED <<mem, allocated>>
            ELSE IF ~CanAllocate(allocated)
            THEN /\ last' = LinkCall("map_at_level", va, k, "NoMemory", <<>>)
                 /\ UNCHANGED <<mem, allocated>>
            ELSE LET a == SmallocPageAlloc_allocate_page_table(mem, allocated) IN
                 /\ mem' = a.mem
                 /\ allocated' = a.allocated
                 /\ last' = LinkCall("map_at_level", va, k, "Ok",
                                     <<"allocated", t, k, a.pa>>)
    /\ calls' = calls + 1
    /\ UNCHANGED others

\* with_page_table(new_pa, write_bytes(.., 0, PAGE_SIZE))
MapAtLevelZero ==
    /\ last.fault # <<>>
    /\ last.fault[1] = "allocated"
    /\ mem' = write_bytes(mem, last.fault[4])
    /\ last' = [last EXCEPT !.fault[1] = "zeroed"]
    /\ UNCHANGED <<allocated, calls>>
    /\ UNCHANGED others

\* with_page_table(table, set_desc(va, new_next_table(new_pa))), then Ok
MapAtLevelSet ==
    /\ last.fault # <<>>
    /\ last.fault[1] = "zeroed"
    /\ mem' = set_desc(mem, last.fault[2], last.fault[3], last.vstart,
                       new_next_table(last.fault[4]))
    /\ last' = [last EXCEPT !.fault = <<>>]
    /\ UNCHANGED <<allocated, calls>>
    /\ UNCHANGED others

\* try_map_pa on the table map_at_level returned: one page, or the whole
\* coverage of the level
TryMapPa ==
    /\ calls < MaxLinkCalls
    /\ last.fault = <<>>
    /\ \E va \in LinkVas, k \in 1 .. 3, whole \in BOOLEAN :
         /\ k <= EntryAt(mem, va).level
         /\ LET size == IF whole THEN 2 ^ SHIFT(k) ELSE PAGE_SIZE
                r == try_map_pa(mem, PathTable(mem, k, va), k, va, 0, size,
                                MapAttributes(0, size, va, size, "Normal", PermRW)) IN
            /\ mem' = r.mem
            /\ last' = LinkCall("try_map_pa", va, k, r.err, <<>>)
    /\ calls' = calls + 1
    /\ UNCHANGED <<allocated>>
    /\ UNCHANGED others

NextLink == MapAtLevelBegin \/ MapAtLevelZero \/ MapAtLevelSet \/ TryMapPa
SpecLink == InitLink /\ [][NextLink]_vars

\* C28: a newly allocated table page is zeroed before the Table descriptor
\* that links it is written into its parent: in the step in which a table
\* page becomes reachable from the root all of its entries are Invalid, and
\* until then the page map_at_level has taken is not reachable.
C28_ZeroedBeforeLinked ==
    [][/\ \A t \in TableIds :
            (t \notin Reachable(mem) /\ t \in Reachable(mem')) =>
                \A i \in Indices : StateInvalid(mem'[t][i])
       /\ (last'.fault # <<>>) =>
            /\ TableOf(last'.fault[4]) \notin Reachable(mem')
            /\ (last'.fault[1] = "zeroed" =>
                    mem'[TableOf(last'.fault[4])] = PgTableArray_new)]_vars

\* a page that held stale descriptors when map_at_level took it is linked
\* under the root, and all of its entries are Invalid
C28_Witness ==
    /\ last.op = "map_at_level" /\ last.err = "Ok" /\ last.fault = <<>>
    /\ \E t \in Reachable(mem) :
         /\ t >= last.allocated0
         /\ last.mem0[t] # PgTableArray_new
         /\ mem[t] = PgTableArray_new
         /\ get_desc(mem, PathTable(mem, last.other, last.vstart), last.other,
                     last.vstart) = new_next_table(t * PAGE_SIZE)

\* C29: map_range never overwrites: every entry the call changed in a table
\* that existed before it was in the Invalid state (all bits zero) just
\* before the call, so an entry in the Swapped state left by protect_range
\* is as it was after a later map_range of the same page.
C29_WritesReplaceInvalidOnly ==
    (last.op \in {"map_range", "map_page"}) =>
        \A t \in 0 .. last.allocated0 - 1 :
            \A i \in Indices :
                mem[t][i] # last.mem0[t][i] => StateInvalid(last.mem0[t][i])

\* ------------------------------------------------------------------------
\* The generic walker of pg_walk.rs: Walk::<T>::map_range
\* ------------------------------------------------------------------------
PteFlags ==
    {"VALID", "READ", "WRITE", "EXECUTE", "USER", "GLOBAL", "ACCESSED", "DIRTY"}
\* PageDescriptor::new(pa, flags): the frame number and the flag bits
PageDescriptor_new(pa, flags) ==
    [invalid EXCEPT !.ppn = pa \div PAGE_SIZE,
                    !.valid = "VALID" \in flags,
                    !.read = "READ" \in flags,
                    !.write = "WRITE" \in flags,
                    !.execute = "EXECUTE" \in flags,
                    !.user = "USER" \in flags,
                    !.global = "GLOBAL" \in flags,
                    !.accessed = "ACCESSED" \in flags,
                    !.dirty = "DIRTY" \in flags]
\* PageDescriptor::is_table / output_address
is_table(d) == ~d.read /\ ~d.write /\ ~d.execute
output_address(d) == d.ppn * PAGE_SIZE

\* Walk::make_flags
make_flags(perms, mt) ==
    {"VALID", "ACCESSED", "DIRTY", "READ"}
        \cup (IF perms.write THEN {"WRITE"} ELSE {})
        \cup (IF perms.execute THEN {"EXECUTE"} ELSE {})
        \cup (IF perms.user THEN {"USER"} ELSE {"GLOBAL"})

cmp_min(x, y) == IF x <= y THEN x ELSE y
cmp_max(x, y) == IF x >= y THEN x ELSE y
\* PgTable::is_leaf, PgTable::page_size (pa_tables.rs)
is_leaf(level) == level = 3
page_size(level) == 2 ^ SHIFT(level)
WalkOutcome(err, m, a, children) ==
    [err |-> err, mem |-> m, allocated |-> a, children |-> children]

\* map_range_internal, first pass: the entries start_idx ..= end_idx of the
\* table, from entry i on
RECURSIVE Walk_entries(_, _, _, _, _, _, _, _, _, _, _)
Walk_entries(level, table_pa, i, end_idx, current_va, current_pa, va_end, attrs, m, a, children) ==
    IF i > end_idx THEN WalkOutcome("Ok", m, a, children)
    ELSE
    LET slot_boundary ==
            (current_va - (current_va % page_size(level))) + page_size(level)
        chunk_end == cmp_min(va_end, slot_boundary)
        chunk_len == chunk_end - current_va
        e == m[TableOf(table_pa)][i]
    IN
    IF is_leaf(level)
    THEN LET pte == PageDescriptor_new(current_pa,
                                       make_flags(attrs.perms, attrs.mem_type))
         IN Walk_entries(level, table_pa, i + 1, end_idx,
                         current_va + chunk_len, current_pa + chunk_len, va_end,
                         attrs, [m EXCEPT ![TableOf(table_pa)][i] = pte], a,
                         children)
    ELSE IF is_valid(e) /\ is_table(e)
    THEN Walk_entries(level, table_pa, i + 1, end_idx,
                      current_va + chunk_len, current_pa + chunk_len, va_end,
                      attrs, m, a, Append(children, <<i, output_address(e)>>))
    ELSE IF ~CanAllocate(a)
    THEN WalkOutcome("NoMemory", m, a, children)
    ELSE LET n == allocate_page_table(m, a) IN
         Walk_entries(level, table_pa, i + 1, end_idx,
                      current_va + chunk_len, current_pa + chunk_len, va_end,
                      attrs,
                      [n.mem EXCEPT ![TableOf(table_pa)][i] =
                            PageDescriptor_new(n.pa, {"VALID"})],
                      n.allocated, Append(children, <<i, n.pa>>))

\* map_range_internal: the first pass, then the recursion into the child
\* tables it collected, from child k on
RECURSIVE Walk_map_range_internal(_, _, _, _, _, _, _, _)
RECURSIVE Walk_children(_, _, _, _, _, _, _, _, _)
Walk_children(level, children, k, va_start, va_end, pa_start, attrs, m, a) ==
    IF k > Len(children) THEN WalkOutcome("Ok", m, a, <<>>)
    ELSE
    LET idx == children[k][1]
        child_pa == children[k][2]
        start_idx == pg_index(level, va_start)
        idx_base_va ==
            (va_start - (va_start % page_size(level)))
                + (idx - start_idx) * page_size(level)
        chunk_start == cmp_max(va_start, idx_base_va)
        chunk_end == cmp_min(va_end, idx_base_va + page_size(level))
        chunk_pa == pa_start + (chunk_start - va_start)
    IN CHOOSE o \in
            {IF r.err # "Ok" THEN r
             ELSE Walk_children(level, children, k + 1, va_start, va_end,
                                pa_start, attrs, r.mem, r.allocated) :
                r \in {Walk_map_range_internal(level + 1, child_pa, chunk_start,
                                               chunk_end, chunk_pa, attrs, m, a)}} :
            TRUE

Walk_map_range_internal(level, table_pa, va_start, va_end, pa_start, attrs, m, a) ==
    CHOOSE o \in
        {IF p.err # "Ok" THEN WalkOutcome(p.err, p.mem, p.allocated, <<>>)
         ELSE Walk_children(level, p.children, 1, va_start, va_end, pa_start,
                            attrs, p.mem, p.allocated) :
            p \in {Walk_entries(level, table_pa, pg_index(level, va_start),
                                pg_index(level, va_end - 1), va_start, pa_start,
                                va_end, attrs, m, a, <<>>)}} :
        TRUE

\* Walk::map_range
Walk_map_range(table_pa, attrs, m, a) ==
    Walk_map_range_internal(0, table_pa, attrs.virt.start,
                            attrs.virt.start + attrs.virt.size,
                            attrs.phys.start, attrs, m, a)

\* <<physical start page, permissions>>
WalkTargets == {<<0, PermRW>>, <<1, PermRO>>, <<2, PermXO>>}
WalkAttrs ==
    {MapAttributes(t[1] * PAGE_SIZE, r[2] * PAGE_SIZE, r[1] * PAGE_SIZE,
                   r[2] * PAGE_SIZE, "Normal", t[2]) :
        r \in PageRegions, t \in WalkTargets}

\* pa_tables.rs map_range: Walk::<L0Table>::map_range(root, attrs, ctx)
WalkMapRange ==
    /\ calls < MaxOps
    /\ \E attrs \in WalkAttrs :
         LET r == Walk_map_range(RootPa, attrs, mem, allocated) IN
         /\ mem' = r.mem
         /\ allocated' = r.allocated
         /\ last' = Call("Walk::map_range", attrs.virt.start, attrs.virt.size,
                         attrs.phys.start, attrs.phys.size, attrs.perms,
                         r.err, <<>>, 0, <<>>)
    /\ calls' = calls + 1
    /\ UNCHANGED others

NextWalk == WalkMapRange
SpecWalk == Init /\ [][NextWalk]_vars

\* C30: when a page of the range Walk::map_range is asked to map is already
\* mapped by a valid Leaf, the call fails with AlreadyMapped and the entry
\* of that page is as it was before the call.
C30_WalkCollisionIsAlreadyMapped ==
    (last.op = "Walk::map_range") =>
        \A i \in RegionPages(last.vsize) :
            IsMapped(last.mem0, PageVa(last.vstart, i)) =>
                /\ last.err = "AlreadyMapped"
                /\ EntryAt(mem, PageVa(last.vstart, i))
                        = EntryAt(last.mem0, PageVa(last.vstart, i))

\* ------------------------------------------------------------------------
\* Collisions: what a failed map_range leaves behind, and when it fails
\* ------------------------------------------------------------------------
\* C31: when a map_range over several pages returns AlreadyMapped, every
\* descriptor of every table reachable from the root is as it was before
\* the call and no table page was allocated.
C31_CollisionChangesNothing ==
    (LastIsMapRange /\ last.vsize > PAGE_SIZE /\ last.err = "AlreadyMapped") =>
        /\ allocated = last.allocated0
        /\ \A t \in Reachable(mem) \cup Reachable(last.mem0) :
               mem[t] = last.mem0[t]

\* map_range and unmap_range on one address space, in any order
\* <<first page, pages>>: a page, the page after it, the 2 MiB slot of both
ReuseRegions == {<<0, 1>>, <<1, 1>>, <<0, PagesPer(2)>>}
ReuseAttrs ==
    {MapAttributes(p * PAGE_SIZE, r[2] * PAGE_SIZE, r[1] * PAGE_SIZE,
                   r[2] * PAGE_SIZE, "Normal", PermRW) :
        r \in ReuseRegions, p \in {0, 1}}

MapRegion ==
    /\ calls < MaxCalls
    /\ \E attrs \in ReuseAttrs :
         LET r == map_range(RootPa, mem, allocated, attrs) IN
         /\ mem' = r.mem
         /\ allocated' = r.allocated
         /\ last' = Call("map_range", attrs.virt.start, attrs.virt.size,
                         attrs.phys.start, attrs.phys.size, attrs.perms,
                         r.err, <<>>, r.pages, r.leaves)
    /\ calls' = calls + 1
    /\ UNCHANGED others

NextReuse == MapRegion \/ UnmapRange
SpecReuse == Init /\ [][NextReuse]_vars

\* C32: map_range returns AlreadyMapped only if a page of the requested
\* range is translated by a valid leaf when the call is made; so once every
\* page mapped beneath a superpage-aligned region has been unmapped, a
\* map_range of that region succeeds.
C32_AlreadyMappedNeedsMappedPage ==
    (LastIsMapRange /\ last.err = "AlreadyMapped") =>
        \E i \in RegionPages(last.vsize) :
            IsMapped(last.mem0, PageVa(last.vstart, i))

\* C33: after unmap_range(R) returns success every leaf-level descriptor
\* that covers a page of R is Invalid, whatever map_page and protect_range
\* calls came before; no Swapped descriptor is left in R.
C33_UnmapLeavesInvalid ==
    (last.op = "unmap_range" /\ last.err = "Ok") =>
        \A i \in RegionPages(last.vsize) :
            LET e == EntryAt(mem, PageVa(last.vstart, i)) IN
            e.level = 3 => StateInvalid(e.desc)

\* ------------------------------------------------------------------------
\* Process roots and later kernel mappings.  The root of the model has one
\* slot in the kernel half; here it stands for a 512 GiB slot other than
\* the image's (the MMIO window, the heap), Invalid in the kernel root until
\* the kernel first maps into it.
\* ------------------------------------------------------------------------
InitShare ==
    /\ capacity = PoolPages
    /\ \E kernel_range \in KernelRanges :
       \E idmap \in {map_range(RootPa, [t \in PoolIds |-> PgTableArray_new], 1,
                               IdentityMapping(kernel_range))} :
         /\ idmap.err = "Ok"
         /\ mem = idmap.mem
         /\ allocated = idmap.allocated
         /\ last = NoCall(idmap.mem, idmap.allocated)
    /\ calls = 0
    /\ spaces = <<>>
    /\ kern_addr_space = <<RiscvKernelAddressSpace(RootPa, MMIO_BASE)>>
    /\ cpus = [c \in Cores |-> Idle]
    /\ mmio_ranges = <<>>
    /\ tasks = NoTasks
    /\ satp = satp_set("Sv48", 0, to_pfn(RootPa))
    /\ entry = [level |-> 3, d |-> invalid]
    /\ InitLate

NextShare == NewSpace \/ MapNormal \/ MapMmio
SpecShare == InitShare /\ [][NextShare]_vars

\* C34: in every reachable state the entries of the kernel half (256..511)
\* of every live process root equal the same entries of the kernel root,
\* also after the kernel has mapped into a slot whose root entry was Invalid
\* when the process was created.
C34_KernelHalfStaysShared ==
    \A s \in DOMAIN spaces :
        \A i \in UpperIndices :
            mem[TableOf(spaces[s])][i] = mem[TableOf(KernRoot)][i]

\* C35: protect_and_clone_region reports a page of the region that is
\* already mapped in the destination address space as an error return,
\* never as a kernel panic.
C35_CloneCollisionIsAnError ==
    (/\ last.op = "protect_and_clone_region"
     /\ \E i \in RegionPages(last.vsize) :
          /\ translate(last.space, last.mem0, PageVa(last.vstart, i)).kind = "Some"
          /\ translate(last.other, last.mem0, PageVa(last.vstart, i)).kind = "Some")
        => last.err # "Panic"

\* ------------------------------------------------------------------------
\* map_range one turn of its while loop at a time: the cursors are
\* attrs.virt and attrs.phys, which the loop itself moves forward
\* ------------------------------------------------------------------------
\* map_range calls per behaviour when the loop is followed turn by turn
MaxLoopCalls == 2

StepOutcome(err, m, a, pgs_mapped, level) ==
    [err |-> err, mem |-> m, allocated |-> a, pgs_mapped |-> pgs_mapped,
     level |-> level]

\* The body of the while loop: the descent from the root, the three
\* attempts, and the number of pages the cursors are moved by
map_range_step(root, m, a, va, pa, size, attrs) ==
    CHOOSE o1 \in {
    IF l1.err # "Ok" THEN StepOutcome(l1.err, l1.mem, l1.allocated, 0, 0)
    ELSE
    CHOOSE o2 \in {
    IF m1.err # "Ok" THEN StepOutcome(m1.err, m1.mem, l1.allocated, 0, 0)
    ELSE IF m1.some THEN StepOutcome("Ok", m1.mem, l1.allocated, m1.pages, 1)
    ELSE
    CHOOSE o3 \in {
    IF l2.err # "Ok" THEN StepOutcome(l2.err, l2.mem, l2.allocated, 0, 0)
    ELSE
    CHOOSE o4 \in {
    IF m2.err # "Ok" THEN StepOutcome(m2.err, m2.mem, l2.allocated, 0, 0)
    ELSE IF m2.some THEN StepOutcome("Ok", m2.mem, l2.allocated, m2.pages, 2)
    ELSE
    CHOOSE o5 \in {
    IF l3.err # "Ok" THEN StepOutcome(l3.err, l3.mem, l3.allocated, 0, 0)
    ELSE
    CHOOSE o6 \in {
    IF m3.err # "Ok" THEN StepOutcome(m3.err, m3.mem, l3.allocated, 0, 0)
    ELSE StepOutcome("Ok", m3.mem, l3.allocated, 1, 3)
    : m3 \in {try_map_pa(l3.mem, l3.next, 3, va, pa, size, attrs)}} : TRUE
    : l3 \in {map_at_level(l2.mem, l2.allocated, l2.next, 2, va)}} : TRUE
    : m2 \in {try_map_pa(l2.mem, l2.next, 2, va, pa, size, attrs)}} : TRUE
    : l2 \in {map_at_level(l1.mem, l1.allocated, l1.next, 1, va)}} : TRUE
    : m1 \in {try_map_pa(l1.mem, l1.next, 1, va, pa, size, attrs)}} : TRUE
    : l1 \in {map_at_level(m, a, root, 0, va)}} : TRUE

\* <<first page, pages, first frame>>: single pages, whole superpages, and
\* regions that take a superpage and single pages in one call
LoopRegions ==
    {<<0, 1, 1>>, <<1, 2, 0>>, <<0, PagesPer(2), 0>>, <<0, PagesPer(1), 0>>,
     <<0, PagesPer(2) + 1, 0>>, <<0, PagesPer(1) + PagesPer(2) + 1, 0>>,
     <<PagesPer(2), PagesPer(2), 1>>}
LoopAttrs ==
    {MapAttributes(r[3] * PAGE_SIZE, r[2] * PAGE_SIZE, r[1] * PAGE_SIZE,
                   r[2] * PAGE_SIZE, "Normal", PermRW) : r \in LoopRegions}
        \cup RawAttrs

\* the call is inside its while loop
InLoop == last.op = "map_range" /\ last.fault = <<"loop">>

\* map_range up to the while loop: the four precondition checks
MapRangeEnter ==
    /\ calls < MaxLoopCalls
    /\ ~InLoop
    /\ \E attrs \in LoopAttrs :
         LET err == IF attrs.phys.size # attrs.virt.size THEN "SizeMismatch"
                    ELSE IF attrs.phys.size < PAGE_SIZE THEN "TooSmall"
                    ELSE IF ~region_is_page_aligned(attrs.phys.start, attrs.phys.size)
                    THEN "PhysNotAligned"
                    ELSE IF ~region_is_page_aligned(attrs.virt.start, attrs.virt.size)
                    THEN "VirtNotAligned"
                    ELSE "Ok" IN
         last' = [Call("map_range", attrs.virt.start, attrs.virt.size,
                       attrs.phys.start, attrs.phys.size, attrs.perms, err,
                       <<>>, 0, <<>>)
                     EXCEPT !.events = <<attrs>>,
                            !.fault = IF err = "Ok" THEN <<"loop">> ELSE <<>>]
    /\ calls' = calls + 1
    /\ UNCHANGED <<mem, allocated>>
    /\ UNCHANGED others

\* one turn of the loop: an error returns, a leaf moves both cursors
MapRangeTurn ==
    /\ InLoop
    /\ last.vsize > 0
    /\ LET s == map_range_step(RootPa, mem, allocated, last.vstart, last.pstart,
                               last.vsize, last.events[1]) IN
       /\ mem' = s.mem
       /\ allocated' = s.allocated
       /\ last' = IF s.err # "Ok"
                  THEN [last EXCEPT !.err = s.err, !.fault = <<>>]
                  ELSE [last EXCEPT
                           !.vstart = @ + s.pgs_mapped * PAGE_SIZE,
                           !.vsize = @ - s.pgs_mapped * PAGE_SIZE,
                           !.pstart = @ + s.pgs_mapped * PAGE_SIZE,
                           !.psize = @ - s.pgs_mapped * PAGE_SIZE,
                           !.pages = @ + s.pgs_mapped,
                           !.leaves = Append(@, Leaf(s.level, last.vstart,
                                                     last.pstart))]
    /\ UNCHANGED calls
    /\ UNCHANGED others

\* the loop condition fails: Ok(())
MapRangeReturn ==
    /\ InLoop
    /\ last.vsize = 0
    /\ last' = [last EXCEPT !.fault = <<>>]
    /\ UNCHANGED <<mem, allocated, calls>>
    /\ UNCHANGED others

NextLoop == MapRangeEnter \/ MapRangeTurn \/ MapRangeReturn
SpecLoop == Init /\ [][NextLoop]_vars
\* the running call is scheduled until it returns
SpecLoopFair == SpecLoop /\ WF_vars(MapRangeTurn) /\ WF_vars(MapRangeReturn)

\* pages the cursor of a turn was moved by
TurnPages == (last'.vstart - last.vstart) \div PAGE_SIZE

\* C36: a map_range call whose arguments pass the precondition checks
\* returns; every turn of its loop that does not return moves the virtual
\* and the physical cursor forward by the same number of pages, which is
\* the page count of an L1 leaf, of an L2 leaf or one, and takes that many
\* pages off the remaining size, which never goes below zero.
C36_MapRangeTerminates ==
    /\ [][(InLoop /\ InLoop') =>
            /\ TurnPages \in {PagesPer(1), PagesPer(2), 1}
            /\ last'.vstart = last.vstart + TurnPages * PAGE_SIZE
            /\ last'.pstart = last.pstart + TurnPages * PAGE_SIZE
            /\ last'.vsize = last.vsize - TurnPages * PAGE_SIZE
            /\ last'.vsize >= 0]_vars
    /\ (InLoop ~> (~InLoop /\ (last.err = "Ok" => last.vsize = 0)))

\* a call returned Ok after turns of all three sizes
C36_Witness ==
    /\ last.op = "map_range" /\ ~InLoop
    /\ last.err = "Ok" /\ last.vsize = 0
    /\ {last.leaves[i].level : i \in DOMAIN last.leaves} = {1, 2, 3}

\* ------------------------------------------------------------------------
\* Stage 1 of the boot: the kernel stack and the kernel heap
\* ------------------------------------------------------------------------
\* KERNEL_STACK_SZ (64 KiB) and KERNEL_HEAP_SZ (64 MiB), in pages of the model
KERNEL_STACK_SZ == PAGE_SIZE
KERNEL_HEAP_SZ == 2 * PAGE_SIZE
\* 0xffff_b800_0000_0000 of the memory map: the region after the heap's
STACK_BASE == HEAP_BASE + 2 ^ SHIFT(2)
\* allocate_kstack_region calls for the secondary cores, per behaviour
MaxKstackCalls == 3
\* page frames the boot allocator can answer with
MaxBootFrames == 16

Region(start, size) == [start |-> start, size |-> size]
end_address(region) == region.start + region.size
RegionsDisjoint(r1, r2) ==
    end_address(r1) <= r2.start \/ end_address(r2) <= r1.start

\* allocate_kstack_region: the region at CURRENT_VA, and CURRENT_VA after it
allocate_kstack_region(cur) ==
    [range |-> Region(cur, KERNEL_HEAP_SZ),
     CURRENT_VA |-> cur + KERNEL_HEAP_SZ + PAGE_SIZE]

\* PtePermissions::rw(false)
PermKernelRW == from_raw_bits(TRUE, TRUE, FALSE, FALSE, FALSE)

\* setup_stack_and_heap, with `stack` and `heap` the answers of alloc.alloc
setup_stack_and_heap(pgtbl_base, m, a, cur, stack, heap) ==
    LET k == allocate_kstack_region(cur)
        stack_phys_region == Region(stack, KERNEL_HEAP_SZ)
        stack_virt_region == k.range
        heap_phys_region == Region(heap, KERNEL_HEAP_SZ)
        heap_virt_region == Region(HEAP_BASE, KERNEL_HEAP_SZ) IN
    CHOOSE o \in
        {IF r1.err # "Ok"
         THEN [err |-> r1.err, mem |-> r1.mem, allocated |-> r1.allocated,
               CURRENT_VA |-> k.CURRENT_VA, stack |-> stack_virt_region,
               heap |-> heap_virt_region, sp |-> 0]
         ELSE CHOOSE o2 \in
                  {[err |-> r2.err, mem |-> r2.mem, allocated |-> r2.allocated,
                    CURRENT_VA |-> k.CURRENT_VA, stack |-> stack_virt_region,
                    heap |-> heap_virt_region,
                    sp |-> IF r2.err = "Ok" THEN end_address(stack_virt_region)
                           ELSE 0] :
                      r2 \in {map_range(pgtbl_base, r1.mem, r1.allocated,
                                  MapAttributes(heap_phys_region.start,
                                      heap_phys_region.size,
                                      heap_virt_region.start,
                                      heap_virt_region.size, "Normal",
                                      PermKernelRW))}} : TRUE :
            r1 \in {map_range(pgtbl_base, m, a,
                        MapAttributes(stack_phys_region.start,
                            stack_phys_region.size, stack_virt_region.start,
                            stack_virt_region.size, "Normal", PermKernelRW))}} :
        TRUE

BootFrames == 0 .. (MaxBootFrames - 1)
StackCall(op, s) ==
    [Call(op, s.stack.start, s.stack.size, 0, 0, PermKernelRW, s.err, <<>>, 0,
          <<>>)
        EXCEPT !.visited = <<s.heap>>, !.fault = <<s.sp>>]

\* arch_init_stage1: setup_stack_and_heap(highmem_pgtable_base), once
SetupStackAndHeap ==
    /\ last.op = "none"
    /\ \E stack \in BootFrames, heap \in BootFrames :
         \* the two allocations do not overlap
         /\ RegionsDisjoint(Region(stack * PAGE_SIZE, KERNEL_STACK_SZ),
                            Region(heap * PAGE_SIZE, KERNEL_HEAP_SZ))
         /\ LET s == setup_stack_and_heap(RootPa, mem, allocated, CURRENT_VA,
                                          stack * PAGE_SIZE, heap * PAGE_SIZE) IN
            /\ mem' = s.mem
            /\ allocated' = s.allocated
            /\ CURRENT_VA' = s.CURRENT_VA
            /\ last' = StackCall("setup_stack_and_heap", s)
    /\ UNCHANGED <<calls, capacity, spaces, kern_addr_space, satp, entry, cpus,
                   mmio_ranges, tasks, smp, fix, uaccess>>

\* prepare_for_secondary_entry: allocate_kstack_region for one more core
AllocateKstackRegion ==
    /\ last.op # "none"
    /\ calls < MaxKstackCalls
    /\ LET k == allocate_kstack_region(CURRENT_VA) IN
       /\ CURRENT_VA' = k.CURRENT_VA
       /\ last' = StackCall("allocate_kstack_region",
                            [stack |-> k.range, heap |-> last.visited[1],
                             err |-> "Ok", sp |-> 0])
    /\ calls' = calls + 1
    /\ UNCHANGED <<mem, allocated, capacity, spaces, kern_addr_space, satp,
                   entry, cpus, mmio_ranges, tasks, smp, fix, uaccess>>

NextStack == SetupStackAndHeap \/ AllocateKstackRegion
SpecStack == InitKern /\ [][NextStack]_vars

\* C37: setup_stack_and_heap puts the kernel stack at STACK_BASE and the
\* kernel heap at HEAP_BASE, two disjoint virtual regions, and on the
\* kernel table of the boot, which maps only the kernel image, both of its
\* map_range calls succeed.
C37_StackAndHeapApart ==
    (last.op = "setup_stack_and_heap" /\ last.err # "NoMemory") =>
        /\ last.err = "Ok"
        /\ last.vstart = STACK_BASE
        /\ last.visited[1].start = HEAP_BASE
        /\ RegionsDisjoint(Region(last.vstart, last.vsize), last.visited[1])

\* ------------------------------------------------------------------------
\* boot_secondaries: the boot core starts the secondary cores through the
\* one SecondaryBootInfo, and waits for each on SECONDARY_BOOTED; the cores
\* run do_secondary_start and secondary_booted at their own pace.  The
\* frame allocator, map_normal on the kernel tables, the SBI call and the
\* timer are answers from outside: each can fail or succeed.
\* ------------------------------------------------------------------------
\* the page tables and what the calls on them keep
early == <<mem, allocated, capacity, last, calls, spaces, kern_addr_space, satp, entry, cpus, mmio_ranges, tasks>>
\* the variables the secondary boot leaves alone
tables == <<early, fix, uaccess>>

\* the next iteration of `for node in cpu_node_iter()`, with the result of this one
NextNode(err) == [node |-> boot.node + 1, pc |-> "node", err |-> err]
\* the hart id in the reg property of a cpu node
NodeId(n) == n - 1

\* do_boot_secondary up to the end of prepare_for_secondary_entry
DoBootSecondary ==
    /\ boot.pc = "node"
    /\ boot.node <= MaxCpus
    /\ \E status \in {"okay", "disabled"}, alloc_ok \in BOOLEAN, map_ok \in BOOLEAN :
         IF NodeId(boot.node) = BootCpu \/ status # "okay"
         THEN /\ boot' = NextNode("Ok")
              /\ UNCHANGED <<CURRENT_VA, SECONDARY_BOOT_CTX>>
         ELSE LET k == allocate_kstack_region(CURRENT_VA) IN
              /\ CURRENT_VA' = k.CURRENT_VA
              /\ IF ~alloc_ok
                 THEN /\ boot' = NextNode("NoMemory")
                      /\ UNCHANGED SECONDARY_BOOT_CTX
                 ELSE IF ~map_ok
                 THEN /\ boot' = NextNode("MapError")
                      /\ UNCHANGED SECONDARY_BOOT_CTX
                 ELSE /\ SECONDARY_BOOT_CTX' =
                             [kstack_addr |-> end_address(k.range),
                              satp |-> satp,
                              start_fn |-> "arch_init_secondary",
                              exception_ret |-> "exception_return"]
                      /\ boot' = [boot EXCEPT !.pc = "reset"]
    /\ UNCHANGED <<SECONDARY_BOOTED, harts>>
    /\ UNCHANGED tables

\* SECONDARY_BOOTED.store(false)
ResetHandshake ==
    /\ boot.pc = "reset"
    /\ SECONDARY_BOOTED' = FALSE
    /\ boot' = [boot EXCEPT !.pc = "hart_start"]
    /\ UNCHANGED <<CURRENT_VA, SECONDARY_BOOT_CTX, harts>>
    /\ UNCHANGED tables

\* sbi_rt::hart_start(id, entry_fn_pa, ctx_pa)
HartStart ==
    /\ boot.pc = "hart_start"
    /\ \E sbi_ok \in BOOLEAN :
         IF sbi_ok
         THEN /\ harts' = [harts EXCEPT ![NodeId(boot.node)].pc = "started"]
              /\ boot' = [boot EXCEPT !.pc = "wait"]
         ELSE /\ boot' = NextNode("SBI hart_start failed")
              /\ UNCHANGED harts
    /\ UNCHANGED <<CURRENT_VA, SECONDARY_BOOT_CTX, SECONDARY_BOOTED>>
    /\ UNCHANGED tables

\* the wait loop reads SECONDARY_BOOTED as true: Ok(())
WaitBooted ==
    /\ boot.pc = "wait"
    /\ SECONDARY_BOOTED
    /\ boot' = NextNode("Ok")
    /\ UNCHANGED <<CURRENT_VA, SECONDARY_BOOT_CTX, SECONDARY_BOOTED, harts>>
    /\ UNCHANGED tables

\* the wait loop reads false and now() >= timeout: Err
WaitTimeout ==
    /\ boot.pc = "wait"
    /\ ~SECONDARY_BOOTED
    /\ boot' = NextNode("timeout waiting for core entry")
    /\ UNCHANGED <<CURRENT_VA, SECONDARY_BOOT_CTX, SECONDARY_BOOTED, harts>>
    /\ UNCHANGED tables

\* do_secondary_start on a started core: satp and sp from the SecondaryBootInfo
DoSecondaryStart ==
    /\ \E h \in DOMAIN harts :
         /\ harts[h].pc = "started"
         /\ harts' = [harts EXCEPT ![h] = [pc |-> "entered",
                                          sp |-> SECONDARY_BOOT_CTX.kstack_addr]]
    /\ UNCHANGED <<CURRENT_VA, SECONDARY_BOOT_CTX, SECONDARY_BOOTED, boot>>
    /\ UNCHANGED tables

\* secondary_booted on a core that has entered the kernel
SecondaryBooted ==
    /\ \E h \in DOMAIN harts :
         /\ harts[h].pc = "entered"
         /\ harts' = [harts EXCEPT ![h].pc = "booted"]
    /\ SECONDARY_BOOTED' = TRUE
    /\ UNCHANGED <<CURRENT_VA, SECONDARY_BOOT_CTX, boot>>
    /\ UNCHANGED tables

NextSecondary ==
    \/ DoBootSecondary
    \/ ResetHandshake
    \/ HartStart
    \/ WaitBooted
    \/ WaitTimeout
    \/ DoSecondaryStart
    \/ SecondaryBooted
SpecSecondary == InitSpaces /\ [][NextSecondary]_vars

FIXMAP_BASE == IMAGE_BASE + 2 ^ SHIFT(1)
\* with_page_table calls per behaviour
MaxWindowCalls == 3

\* Fixmap::va_for_slot
va_for_slot(slot) ==
    IF slot = "PgTableTmp" THEN FIXMAP_BASE + 2 ^ SHIFT(2) ELSE FIXMAP_BASE

\* the descriptor of the PgTableTmp slot, in l3[1]
TempSlot(fm) == fm.l3[2][pg_index(3, va_for_slot("PgTableTmp"))]

\* Fixmap::temp_remap_page_table: the slot maps pa, read-write
temp_remap_page_table(fm, pa) ==
    [fm EXCEPT !.l3[2][pg_index(3, va_for_slot("PgTableTmp"))] =
                   new_map_pa(pa, "Normal", PermKernelRW)]

unmap_temp_page_Keep(fm) == fm

\* Fixmap::unmap_temp_page: the slot is Invalid
unmap_temp_page(fm) ==
    [fm EXCEPT !.l3[2][pg_index(3, va_for_slot("PgTableTmp"))] = invalid]

\* TempFixmapGuard::drop
TempFixmapGuard_drop(fm) == unmap_temp_page(fm)

\* the closures: <<kind, level of the table, address, descriptor written>>
WindowClosures ==
    {<<"get_desc", 3, 0, invalid>>, <<"write_bytes", 3, 0, invalid>>,
     <<"set_desc", 3, PAGE_SIZE, new_map_pa(PAGE_SIZE, "Normal", PermRW)>>,
     <<"set_desc", 2, 0, new_next_table(PAGE_SIZE)>>}

WindowCall(pa, f, err) ==
    [Call("with_page_table", va_for_slot("PgTableTmp"), PAGE_SIZE, pa,
          PAGE_SIZE, PermKernelRW, err, <<>>, 0, <<>>)
        EXCEPT !.events = <<f>>]

\* with_page_table: temp_remap_page_table(pa)?
WithPageTableRemap ==
    /\ calls < MaxWindowCalls
    /\ temp_guard = <<>>
    /\ \E t \in TableIds, f \in WindowClosures :
         /\ FIXMAPS' = temp_remap_page_table(FIXMAPS, t * PAGE_SIZE)
         /\ temp_guard' = <<[va |-> va_for_slot("PgTableTmp"), pc |-> "mapped"]>>
         /\ last' = WindowCall(t * PAGE_SIZE, f, "Ok")
    /\ calls' = calls + 1
    /\ UNCHANGED <<mem, allocated, capacity, spaces, kern_addr_space, satp,
                   entry, cpus, mmio_ranges, tasks, CURRENT_VA, smp, uaccess>>

\* f(guard.get_va()): the closure works on the table the window translates
WithPageTableClosure ==
    /\ temp_guard # <<>>
    /\ temp_guard[1].pc = "mapped"
    /\ StateLeaf(TempSlot(FIXMAPS))
    /\ LET f == last.events[1]
           pa == mapped_address(TempSlot(FIXMAPS)) IN
       mem' = CASE f[1] = "set_desc" -> set_desc(mem, pa, f[2], f[3], f[4])
                [] f[1] = "write_bytes" -> write_bytes(mem, pa)
                [] OTHER -> mem
    /\ temp_guard' = <<[temp_guard[1] EXCEPT !.pc = "called"]>>
    /\ UNCHANGED <<allocated, capacity, last, calls, spaces, kern_addr_space,
                   satp, entry, cpus, mmio_ranges, tasks, FIXMAPS, CURRENT_VA,
                   smp, uaccess>>

\* the guard goes out of scope as with_page_table returns Ok(result)
WithPageTableReturn ==
    /\ temp_guard # <<>>
    /\ temp_guard[1].pc = "called"
    /\ FIXMAPS' = TempFixmapGuard_drop(FIXMAPS)
    /\ temp_guard' = <<>>
    /\ UNCHANGED <<mem, allocated, capacity, last, calls, spaces,
                   kern_addr_space, satp, entry, cpus, mmio_ranges, tasks,
                   CURRENT_VA, smp, uaccess>>

NextFixmap == WithPageTableRemap \/ WithPageTableClosure \/ WithPageTableReturn
SpecFixmap == Init /\ [][NextFixmap]_vars

\* C39: after each FixmapMapper::with_page_table call has returned, the
\* descriptor of the PgTableTmp fixmap slot is Invalid again; while the
\* closure runs the slot maps the table the call was given.
C39_WindowReleased ==
    /\ (last.op = "with_page_table" /\ temp_guard = <<>>) =>
           StateInvalid(TempSlot(FIXMAPS))
    /\ temp_guard # <<>> =>
           /\ StateLeaf(TempSlot(FIXMAPS))
           /\ mapped_address(TempSlot(FIXMAPS)) = last.pstart

\* a call whose closure wrote to the table through the window has returned
C39_Witness ==
    /\ last.op = "with_page_table" /\ temp_guard = <<>>
    /\ last.events[1][1] = "set_desc"
    /\ mem # last.mem0
    /\ StateInvalid(TempSlot(FIXMAPS))

\* ------------------------------------------------------------------------
\* A user copy as a future: poll_uaccess, one statement group per step.
\* futs holds the last answer of each deferred fault future; copies and
\* pendings record the copy attempts and the polls that returned Pending.
\* The copy routine and the fault futures answer from outside.
\* ------------------------------------------------------------------------
UACESS_ABORT_DENIED == 1
UACESS_ABORT_DEFERRED == 2
\* polls that return Pending, per behaviour
MaxPendings == 2

poll_deferred_FallThrough(u, answer) ==
    IF u.deferred_fault = <<>> THEN [u EXCEPT !.pc = "copy"]
    ELSE LET fut == u.deferred_fault[1] IN
         IF answer = "err"
         THEN [u EXCEPT !.futs[fut] = "err", !.deferred_fault = <<>>,
                        !.pc = "done", !.ret = "Fault"]
         ELSE [u EXCEPT !.futs[fut] = answer, !.deferred_fault = <<>>,
                        !.pc = "copy"]

\* the head of the loop: deferred_fault.take() and the poll of the future
poll_deferred(u, answer) ==
    IF u.deferred_fault = <<>> THEN [u EXCEPT !.pc = "copy"]
    ELSE LET fut == u.deferred_fault[1] IN
         IF answer = "err"
         THEN [u EXCEPT !.futs[fut] = "err", !.deferred_fault = <<>>,
                        !.pc = "done", !.ret = "Fault"]
         ELSE IF answer = "ok"
         THEN [u EXCEPT !.futs[fut] = "ok", !.deferred_fault = <<>>,
                        !.pc = "copy"]
         ELSE [u EXCEPT !.futs[fut] = "pending", !.deferred_fault = <<fut>>,
                        !.pc = "idle", !.ret = "Pending",
                        !.pendings = @ + 1]

\* do_copy(*bytes_copied) and the match on its status
copy_and_match(u, status, bytes_copied_new) ==
    LET c == [offset |-> u.bytes_copied, status |-> status,
              bytes_copied_new |-> bytes_copied_new, futs |-> u.futs]
        v == [u EXCEPT !.copies = Append(@, c)] IN
    IF status = 0 THEN [v EXCEPT !.pc = "done", !.ret = "Ok"]
    ELSE IF status = UACESS_ABORT_DENIED
    THEN [v EXCEPT !.pc = "done", !.ret = "Fault"]
    ELSE IF status = UACESS_ABORT_DEFERRED
    THEN [v EXCEPT !.bytes_copied = bytes_copied_new,
                   !.futs = Append(@, "new"),
                   !.deferred_fault = <<Len(u.futs) + 1>>,
                   !.pc = "top"]
    ELSE [v EXCEPT !.pc = "done", !.ret = "Fault"]

\* Riscv64CopyFromUser::new(src, dst, len)
CopyFromUserNew ==
    /\ uaccess.pc = "none"
    /\ \E len \in 1 .. MaxCopyLen : uaccess' = Riscv64CopyFromUser_new(len)
    /\ UNCHANGED <<early, CURRENT_VA, smp, fix>>

\* Future::poll -> poll_uaccess
Poll ==
    /\ uaccess.pc = "idle"
    /\ uaccess.pendings < MaxPendings
    /\ uaccess' = [uaccess EXCEPT !.pc = "top", !.ret = "none"]
    /\ UNCHANGED <<early, CURRENT_VA, smp, fix>>

\* the poll of the deferred fault future, if there is one
PollDeferred ==
    /\ uaccess.pc = "top"
    /\ \E answer \in {"pending", "ok", "err"} :
         uaccess' = poll_deferred(uaccess, answer)
    /\ UNCHANGED <<early, CURRENT_VA, smp, fix>>

\* the copy routine runs from the offset and answers with a status
DoCopy ==
    /\ uaccess.pc = "copy"
    /\ \E status \in 0 .. 3, bytes_copied_new \in 0 .. uaccess.len :
         /\ status = UACESS_ABORT_DEFERRED => Len(uaccess.futs) < MaxFaults
         /\ uaccess' = copy_and_match(uaccess, status, bytes_copied_new)
    /\ UNCHANGED <<early, CURRENT_VA, smp, fix>>

NextUaccess == CopyFromUserNew \/ Poll \/ PollDeferred \/ DoCopy
SpecUaccess == Init /\ [][NextUaccess]_vars

\* C40: in poll_uaccess no copy is attempted while a deferred fault future
\* is pending: every copy attempt finds all earlier deferred futures
\* completed with Ok; a poll that finds the future pending returns Pending
\* and keeps the future; and each retry starts at the byte offset recorded
\* when the fault was deferred.
C40_NoCopyWhilePending ==
    /\ \A k \in DOMAIN uaccess.copies :
         /\ \A i \in DOMAIN uaccess.copies[k].futs :
              uaccess.copies[k].futs[i] = "ok"
         /\ uaccess.copies[k].offset =
                IF k = 1 THEN 0 ELSE uaccess.copies[k - 1].bytes_copied_new
         /\ k > 1 => uaccess.copies[k - 1].status = UACESS_ABORT_DEFERRED
    /\ \A i \in DOMAIN uaccess.futs :
         (uaccess.futs[i] = "pending" /\ uaccess.pc # "top") =>
             /\ uaccess.deferred_fault = <<i>>
             /\ uaccess.ret = "Pending"
             /\ uaccess.pc = "idle"

\* a copy was retried from a nonzero offset after its fault future had
\* been pending and then completed with Ok
C40_Witness ==
    /\ Len(uaccess.copies) = 2
    /\ uaccess.copies[2].offset > 0
    /\ uaccess.copies[2].futs = <<"ok">>
    /\ uaccess.pendings > 0
    /\ uaccess.ret = "Ok"

====
